---- MODULE Spec2Model ----
(***************************************************************************)
(* Chat-with-YouTube: the chat-context subsystem (context building, token  *)
(* budgeting, session store and reaper) and the chat endpoint that drives  *)
(* it.                                                                     *)
(*                                                                         *)
(* A JavaScript string is modelled by a record [text, length]: `text`      *)
(* names the string and `length` is its .length, the only attribute the    *)
(* token budgeter and the validation read.                                 *)
(***************************************************************************)
EXTENDS Integers, Sequences, FiniteSets, TLC

VARIABLES
    chatSessions,   \* keys of the Map chatSessions; key k maps to the object heap[k]
    heap,           \* every session object ever created, by id (a request keeps its reference)
    now,            \* the wall clock read by new Date(), in milliseconds
    uuidCount,      \* number of uuidv4() values drawn so far
    req,            \* per request slot: the POST handler's position and locals
    call            \* the pure-function harness: arguments and results of one call

vars == <<chatSessions, heap, now, uuidCount, req, call>>
serverVars == <<chatSessions, heap, now, uuidCount, req>>

\* -------------------------------------------------------------------------
\* Bounds of the model
\* -------------------------------------------------------------------------
MaxConv == 3        \* conversation messages in a list given to trimContextToTokenLimit
MaxBudget == 6      \* largest maxTokens given to trimContextToTokenLimit in the harness
MaxStored == 26     \* stored messages of a session given to buildConversationContext
MaxClock == 3       \* largest clock value in the cleanupOldSessions harness
MaxUuid == 4        \* uuidv4() values a behaviour may draw (ids of sessions and messages)
MaxFallback == 2    \* fallback languages a client of the transcript endpoint supplies
MaxWords == 2       \* words in a query given to findRelevantTranscriptSegments
MaxSegments == 3    \* segments of a transcript given to findRelevantTranscriptSegments
MaxOver == 60       \* characters by which a rendered transcript misses or exceeds the ceiling
MaxDisplayed == 4   \* messages the browser client displays before it stops sending

\* -------------------------------------------------------------------------
\* Program constants
\* -------------------------------------------------------------------------
MAX_CONTEXT_MESSAGES == 20
MAX_TRANSCRIPT_CHARS == 50000
SYSTEM_PROMPT_LENGTH == 663     \* OPENAI_CONFIG.SYSTEM_PROMPT.length
TRUNCATION_MARKER_LENGTH == 43  \* '\n\n[... transcript truncated for length ...]'.length
DEFAULT_MAX_AGE == 86400000     \* 24 * 60 * 60 * 1000
MAX_MESSAGE_LENGTH == 4000      \* message.length > 4000 is rejected
CHAT_TOKEN_BUDGET == 12000      \* trimContextToTokenLimit(contextMessages, 12000)

Str(t, n) == [text |-> t, length |-> n]

Max(a, b) == IF a >= b THEN a ELSE b
Min(a, b) == IF a <= b THEN a ELSE b

\* slice(0, n) in place of slice(-n): the oldest messages instead of the newest.
SliceFirst(s, n) == SubSeq(s, 1, Min(n, Len(s)))

\* Array.prototype.slice(-n) for n > 0: the last min(n, length) elements, in order.
SliceLast(s, n) == SubSeq(s, Max(1, Len(s) - n + 1), Len(s))

\* Number of decimal digits of a non-negative integer (Number.prototype.toString).
RECURSIVE Digits(_)
Digits(n) == IF n < 10 THEN 1 ELSE 1 + Digits(n \div 10)

\* -------------------------------------------------------------------------
\* Token Budgeter (chat-context.ts)
\* -------------------------------------------------------------------------
\* Math.ceil(content.length / 4)
estimateTokenCount(content) == (content.length + 3) \div 4

RECURSIVE calculateContextTokens(_)
calculateContextTokens(messages) ==
    IF messages = <<>> THEN 0
    ELSE estimateTokenCount(Head(messages).content) + calculateContextTokens(Tail(messages))

\* An `if` in place of the `while`: at most one message is dropped per call.
TrimOnce(systemMessage, trimmedMessages, maxTokens) ==
    IF /\ estimateTokenCount(systemMessage.content)
            + calculateContextTokens(trimmedMessages) > maxTokens
       /\ Len(trimmedMessages) > 1
    THEN Tail(trimmedMessages)
    ELSE trimmedMessages

\* The while loop of trimContextToTokenLimit: shift() while over the limit and
\* more than one conversation message is left.
RECURSIVE TrimLoop(_, _, _)
TrimLoop(systemMessage, trimmedMessages, maxTokens) ==
    IF /\ estimateTokenCount(systemMessage.content)
            + calculateContextTokens(trimmedMessages) > maxTokens
       /\ Len(trimmedMessages) > 1
    THEN TrimLoop(systemMessage, Tail(trimmedMessages), maxTokens)
    ELSE trimmedMessages

\* A trim that drops the whole conversation as soon as the list is over the limit.
trimContextToSystemOnly(messages, maxTokens) ==
    IF calculateContextTokens(messages) <= maxTokens
    THEN messages
    ELSE <<messages[1]>>

trimContextToTokenLimit(messages, maxTokens) ==
    IF calculateContextTokens(messages) <= maxTokens
    THEN messages
    ELSE LET systemMessage == messages[1]
             conversationMessages == Tail(messages)
         IN  <<systemMessage>> \o TrimLoop(systemMessage, conversationMessages, maxTokens)

\* -------------------------------------------------------------------------
\* Context Builder (chat-context.ts)
\* -------------------------------------------------------------------------
\* Length of one rendered line `[M:SS] text`; seconds are padded to two digits.
RenderedItemLength(item) == 1 + Digits(item.start \div 60) + 1 + 2 + 2 + item.text.length

RECURSIVE JoinedLength(_)
JoinedLength(transcript) ==
    IF transcript = <<>> THEN 0
    ELSE RenderedItemLength(Head(transcript))
         + (IF Len(transcript) > 1 THEN 1 ELSE 0)
         + JoinedLength(Tail(transcript))

\* string.substring(0, end): named by the string it is cut from
substring(string, end) ==
    IF end >= string.length THEN string
    ELSE Str(string.text \o "[0.." \o ToString(end) \o ")", end)

\* string + other
concat(string, other) == Str(string.text \o other.text, string.length + other.length)

\* '\n\n[... transcript truncated for length ...]'
TruncationMarker ==
    Str("\n\n[... transcript truncated for length ...]", TRUNCATION_MARKER_LENGTH)

\* The lines `[M:SS] text` of the transcript, joined by newlines.
Rendering(videoId, transcript) == Str("transcript of " \o videoId, JoinedLength(transcript))

\* A truncation that cuts at the ceiling itself.
formatTranscriptContextCutAtCeiling(videoId, transcript) ==
    LET formattedTranscript == Rendering(videoId, transcript)
    IN  IF formattedTranscript.length > MAX_TRANSCRIPT_CHARS
        THEN concat(substring(formattedTranscript, MAX_TRANSCRIPT_CHARS), TruncationMarker)
        ELSE formattedTranscript

\* formatTranscriptContext: the rendering, cut at MAX_TRANSCRIPT_CHARS - 100
\* plus the marker when it is longer than MAX_TRANSCRIPT_CHARS.
formatTranscriptContext(videoId, transcript) ==
    LET formattedTranscript == Rendering(videoId, transcript)
    IN  IF formattedTranscript.length > MAX_TRANSCRIPT_CHARS
        THEN concat(substring(formattedTranscript, MAX_TRANSCRIPT_CHARS - 100),
                    TruncationMarker)
        ELSE formattedTranscript

\* The system message content of buildConversationContext (template literal).
SystemContent(session) ==
    LET transcriptContext == formatTranscriptContext(session.videoId, session.transcript)
    IN  Str("SYSTEM_PROMPT + " \o transcriptContext.text,
            SYSTEM_PROMPT_LENGTH + 30 + Len(session.videoTitle)
            + 8 + Len(session.videoUrl)
            + 13 + Len(session.videoId)
            + 19 + Digits(Len(session.transcript))
            + 14 + transcriptContext.length)

buildConversationContext(session, includeSystemPrompt) ==
    LET systemPart == IF includeSystemPrompt
                      THEN <<[role |-> "system", content |-> SystemContent(session)]>>
                      ELSE <<>>
        recentMessages == [i \in 1..Min(Len(session.messages), MAX_CONTEXT_MESSAGES) |->
                             LET msg == SliceLast(session.messages, MAX_CONTEXT_MESSAGES)[i]
                             IN  [role |-> msg.role, content |-> msg.content]]
    IN  systemPart \o recentMessages

\* -------------------------------------------------------------------------
\* Session Store & Lifecycle Manager (chat-context.ts)
\* -------------------------------------------------------------------------
\* `age >= maxAge` in place of `age > maxAge`.
cleanupAtCutoff(sessions, maxAge, clock) ==
    LET expired == {sessionId \in DOMAIN sessions :
                        clock - sessions[sessionId].updatedAt >= maxAge}
    IN  [sessions |-> [sessionId \in DOMAIN sessions \ expired |-> sessions[sessionId]],
         cleanedCount |-> Cardinality(expired)]

\* cleanupOldSessions over the Map `sessions` (a function from key to session)
\* at clock value `clock`: the Map after the sweep and the count returned.
cleanupOldSessions(sessions, maxAge, clock) ==
    LET expired == {sessionId \in DOMAIN sessions :
                        clock - sessions[sessionId].updatedAt > maxAge}
    IN  [sessions |-> [sessionId \in DOMAIN sessions \ expired |-> sessions[sessionId]],
         cleanedCount |-> Cardinality(expired)]

\* -------------------------------------------------------------------------
\* Relevance Scorer (chat-context.ts)
\* -------------------------------------------------------------------------
\* Texts are sequences of characters here, as the scorer looks inside them.
\* String.prototype.toLowerCase, over the alphabet of the harness
toLowerCase(text) == [i \in DOMAIN text |-> IF text[i] = "A" THEN "a" ELSE text[i]]

\* text.split(/\s+/): the pieces between maximal runs of whitespace; a text
\* that starts or ends with whitespace gives an empty first or last piece.
RECURSIVE SplitFrom(_, _, _, _)
SplitFrom(text, i, piece, pieces) ==
    IF i > Len(text) THEN Append(pieces, piece)
    ELSE IF text[i] = " "
    THEN IF i > 1 /\ text[i - 1] = " "
         THEN SplitFrom(text, i + 1, piece, pieces)
         ELSE SplitFrom(text, i + 1, <<>>, Append(pieces, piece))
    ELSE SplitFrom(text, i + 1, Append(piece, text[i]), pieces)
split(text) == SplitFrom(text, 1, <<>>, <<>>)

\* new RegExp(word, 'g') throws a SyntaxError on a group that is not closed.
RegExpThrows(word) ==
    Cardinality({i \in DOMAIN word : word[i] = "("})
        > Cardinality({i \in DOMAIN word : word[i] = ")"})

\* The pattern, a sequence of literal characters and dots, matches at i.
MatchesAt(pattern, text, i) ==
    /\ i + Len(pattern) - 1 <= Len(text)
    /\ \A k \in DOMAIN pattern : pattern[k] = "." \/ pattern[k] = text[i + k - 1]

\* (text.match(new RegExp(pattern, 'g')) || []).length: the matches found
\* from left to right, each search resuming after the previous match.
RECURSIVE MatchCount(_, _, _)
MatchCount(pattern, text, i) ==
    IF i + Len(pattern) - 1 > Len(text) THEN 0
    ELSE IF MatchesAt(pattern, text, i)
    THEN 1 + MatchCount(pattern, text, i + Len(pattern))
    ELSE MatchCount(pattern, text, i + 1)

\* text.includes(part)
includes(text, part) ==
    \E i \in 1..(Len(text) + 1) :
        /\ i + Len(part) - 1 <= Len(text)
        /\ \A k \in DOMAIN part : part[k] = text[i + k - 1]

RECURSIVE SumOver(_, _, _)
SumOver(words, text, k) ==
    IF k > Len(words) THEN 0
    ELSE MatchCount(words[k], text, 1) + SumOver(words, text, k + 1)

\* The score of one segment (lines 159-176).
SegmentScore(queryLower, queryWords, segment) ==
    LET segmentText == toLowerCase(segment.text)
    IN  SumOver(queryWords, segmentText, 1)
        + (IF includes(segmentText, queryLower) THEN 5 ELSE 0)

\* A slice that takes one element more than asked for.
sliceInclusive(items, end) == SubSeq(items, 1, Min(end + 1, Len(items)))

\* Array.prototype.slice(0, end), for end >= 0
slice(items, end) == SubSeq(items, 1, Min(end, Len(items)))

\* The comparators of lines 181 and 183: (a, b) => b.score - a.score, and
\* (a, b) => a.index - b.index.
Compare(a, b, by) == IF by = "score" THEN b.score - a.score ELSE a.index - b.index

\* Array.prototype.sort with a comparator, which is stable: each element is
\* inserted before the first element that the comparator puts after it.
\* An insertion that goes before the elements it ties with: not stable.
RECURSIVE InsertBeforeEqual(_, _, _)
InsertBeforeEqual(sorted, item, by) ==
    IF sorted = <<>> THEN <<item>>
    ELSE IF Compare(Head(sorted), item, by) >= 0
    THEN <<item>> \o sorted
    ELSE <<Head(sorted)>> \o InsertBeforeEqual(Tail(sorted), item, by)

RECURSIVE InsertSorted(_, _, _)
InsertSorted(sorted, item, by) ==
    IF sorted = <<>> THEN <<item>>
    ELSE IF Compare(Head(sorted), item, by) > 0
    THEN <<item>> \o sorted
    ELSE <<Head(sorted)>> \o InsertSorted(Tail(sorted), item, by)
RECURSIVE SortFrom(_, _, _, _)
SortFrom(items, k, sorted, by) ==
    IF k > Len(items) THEN sorted
    ELSE SortFrom(items, k + 1, InsertSorted(sorted, items[k], by), by)
sort(items, by) == SortFrom(items, 1, <<>>, by)

\* .filter(score > 0).sort(by score, descending).slice(0, maxSegments)
\* .sort(by index, ascending)
Selected(scoredSegments, maxSegments) ==
    LET positive == SelectSeq(scoredSegments, LAMBDA item : item.score > 0)
        top == slice(sort(positive, "score"), maxSegments)
    IN  sort(top, "index")

\* findRelevantTranscriptSegments(query, transcript, maxSegments): the
\* segments returned, or the SyntaxError thrown while a word is compiled.
findRelevantTranscriptSegments(query, transcript, maxSegments) ==
    LET queryLower == toLowerCase(query)
        queryWords == SelectSeq(split(queryLower), LAMBDA word : Len(word) > 2)
    IN  IF Len(queryWords) = 0
        THEN [threw |-> FALSE, segments |-> slice(transcript, maxSegments)]
        ELSE IF transcript # <<>> /\ \E k \in DOMAIN queryWords : RegExpThrows(queryWords[k])
        THEN [threw |-> TRUE, segments |-> <<>>]
        ELSE LET scoredSegments ==
                    [index \in DOMAIN transcript |->
                        [segment |-> transcript[index],
                         score |-> SegmentScore(queryLower, queryWords, transcript[index]),
                         index |-> index]]
                 selected == Selected(scoredSegments, maxSegments)
             IN  [threw |-> FALSE,
                  segments |-> [k \in DOMAIN selected |-> selected[k].segment]]

\* -------------------------------------------------------------------------
\* Videos and their transcripts (what the caption source returns)
\* -------------------------------------------------------------------------
VideoShort == "aaaaaaaaaaa"
VideoLong == "bbbbbbbbbbb"
Videos == {VideoShort, VideoLong}

\* VideoLong's captions make a system message of 11998 estimated tokens, just
\* under the chat endpoint's budget of 12000: a second turn goes over it.
TranscriptOf(videoId) ==
    IF videoId = VideoShort
    THEN << [start |-> 0, dur |-> 2, text |-> Str("hello", 5)],
            [start |-> 2, dur |-> 3, text |-> Str("world", 5)] >>
    ELSE << [start |-> 0, dur |-> 1800, text |-> Str("lecture part 1", 24000)],
            [start |-> 1800, dur |-> 1800, text |-> Str("lecture part 2", 23149)] >>

extractVideoTitle(videoId) == "YouTube Video " \o videoId
VideoUrl(videoId) == "https://www.youtube.com/watch?v=" \o videoId


\* -------------------------------------------------------------------------
\* The transcript source and the language fallback (lib/youtube.ts)
\* -------------------------------------------------------------------------
\* An error message is modelled by the set of phrases its lowercased text includes.
Includes(errorMessage, phrase) == phrase \in errorMessage

\* fallbackLangs = ['en', 'es', 'fr', 'de'], the default of
\* fetchTranscriptWithFallback and of the transcript endpoint
DEFAULT_FALLBACK_LANGS == <<"en", "es", "fr", "de">>

\* What getSubtitles does for one language: captions, an empty list, or a
\* thrown error, one per phrase that parseTranscriptError looks for, and one
\* with none of them.
RawErrors ==
    { {"video unavailable"}, {"no captions"}, {"language not available", "lang"},
      {"private"}, {"blocked"}, {"network"}, {"rate limit"}, {} }
HasCaptions == [threw |-> FALSE, empty |-> FALSE, message |-> {}]
EmptyCaptions == [threw |-> FALSE, empty |-> TRUE, message |-> {}]
Throws(message) == [threw |-> TRUE, empty |-> FALSE, message |-> message]
SourceOutcomes == {HasCaptions, EmptyCaptions} \cup {Throws(m) : m \in RawErrors}

\* new YouTubeTranscriptError(message, code, videoId, language)
YouTubeTranscriptError(message, code, language) ==
    [message |-> message, code |-> code, language |-> language]
NoError == YouTubeTranscriptError({}, "", "")

\* parseTranscriptError: the first matching test decides the code; the
\* message is the code's template, given by the phrases it includes.
parseTranscriptError(errorMessage, lang) ==
    IF Includes(errorMessage, "video unavailable") \/ Includes(errorMessage, "video not found")
    THEN \* `Video ${videoId} is not available or does not exist`
         YouTubeTranscriptError({"not available"}, "VIDEO_NOT_FOUND", lang)
    ELSE IF Includes(errorMessage, "no captions") \/ Includes(errorMessage, "no subtitles")
    THEN \* `No captions available for video ${videoId}`
         YouTubeTranscriptError({"no captions"}, "NO_CAPTIONS_AVAILABLE", lang)
    ELSE IF Includes(errorMessage, "language not available") \/ Includes(errorMessage, "lang")
    THEN \* `Language '${lang}' not available for video ${videoId}`
         YouTubeTranscriptError({"lang", "not available"}, "LANGUAGE_NOT_AVAILABLE", lang)
    ELSE IF Includes(errorMessage, "private") \/ Includes(errorMessage, "restricted")
    THEN \* `Video ${videoId} is private or restricted`
         YouTubeTranscriptError({"private", "restricted"}, "PRIVATE_VIDEO", lang)
    ELSE IF Includes(errorMessage, "blocked") \/ Includes(errorMessage, "region")
    THEN \* `Video ${videoId} is blocked in your region`
         YouTubeTranscriptError({"blocked", "region"}, "REGION_BLOCKED", lang)
    ELSE IF Includes(errorMessage, "network") \/ Includes(errorMessage, "timeout")
            \/ Includes(errorMessage, "fetch")
    THEN \* `Network error while fetching transcript for video ${videoId}`
         YouTubeTranscriptError({"network", "fetch"}, "NETWORK_ERROR", lang)
    ELSE IF Includes(errorMessage, "rate limit") \/ Includes(errorMessage, "too many requests")
    THEN \* `Rate limited while fetching transcript for video ${videoId}`
         YouTubeTranscriptError({"rate limit", "fetch"}, "RATE_LIMITED", lang)
    ELSE \* `Failed to fetch transcript for video ${videoId} in language ${lang}: ${errorMessage}`
         YouTubeTranscriptError({"fetch", "lang"} \cup errorMessage, "UNKNOWN_ERROR", lang)

\* fetchTranscript(videoId, lang) against a source that maps each language to
\* what getSubtitles does for it.
fetchTranscript(source, lang) ==
    IF source[lang].threw
    THEN [ok |-> FALSE, error |-> parseTranscriptError(source[lang].message, lang)]
    ELSE IF source[lang].empty
    THEN \* `No captions found for video ${videoId} in language ${lang}`
         [ok |-> FALSE,
          error |-> YouTubeTranscriptError({"no captions", "lang"},
                                           "NO_CAPTIONS_AVAILABLE", lang)]
    ELSE [ok |-> TRUE, error |-> NoError]

\* [preferredLang, ...fallbackLangs.filter(lang => lang !== preferredLang)]
langsToTry(preferredLang, fallbackLangs) ==
    <<preferredLang>> \o SelectSeq(fallbackLangs, LAMBDA lang : lang # preferredLang)

\* The codes on which the loop rethrows instead of trying the next language.
VideoLevel(code) ==
    code \in {"VIDEO_NOT_FOUND", "PRIVATE_VIDEO", "REGION_BLOCKED", "NO_CAPTIONS_AVAILABLE"}

\* fetchTranscriptWithFallback on entry: nothing attempted yet.
FallbackEntry(source, preferredLang, fallbackLangs) ==
    [fn |-> "fallback", pc |-> "trying", source |-> source,
     preferredLang |-> preferredLang, fallbackLangs |-> fallbackLangs,
     langsToTry |-> langsToTry(preferredLang, fallbackLangs),
     attempts |-> <<>>, errors |-> <<>>, language |-> "", error |-> NoError]

\* One iteration of the for loop, or the throw after it.
FallbackStep(loop) ==
    IF Len(loop.attempts) < Len(loop.langsToTry)
    THEN LET lang == loop.langsToTry[Len(loop.attempts) + 1]
             fetched == fetchTranscript(loop.source, lang)
             attempts == Append(loop.attempts, lang)
         IN  IF fetched.ok
             THEN [loop EXCEPT !.pc = "returned", !.attempts = attempts, !.language = lang]
             ELSE IF VideoLevel(fetched.error.code)
             THEN [loop EXCEPT !.pc = "thrown", !.attempts = attempts,
                               !.errors = Append(@, fetched.error),
                               !.error = fetched.error]
             ELSE [loop EXCEPT !.attempts = attempts, !.errors = Append(@, fetched.error)]
    ELSE \* `No transcript available for video ${videoId} in any of the attempted languages: ...`
         [loop EXCEPT !.pc = "thrown",
                      !.error = YouTubeTranscriptError({"lang"}, "LANGUAGE_NOT_AVAILABLE",
                                                       loop.preferredLang)]

RECURSIVE FallbackRun(_)
FallbackRun(loop) == IF loop.pc = "trying" THEN FallbackRun(FallbackStep(loop)) ELSE loop

\* fetchTranscriptWithFallback, run to its return or throw.
fetchTranscriptWithFallback(source, preferredLang, fallbackLangs) ==
    FallbackRun(FallbackEntry(source, preferredLang, fallbackLangs))

\* -------------------------------------------------------------------------
\* Transcript formatters (lib/youtube.ts)
\* -------------------------------------------------------------------------
\* Strings are sequences of characters here; a time in seconds is carried as
\* its whole number of milliseconds.
DigitChars == <<"0", "1", "2", "3", "4", "5", "6", "7", "8", "9">>
DigitValue(char) == CHOOSE d \in 0..9 : DigitChars[d + 1] = char

\* Number.prototype.toString of a non-negative integer
RECURSIVE toString(_)
toString(n) ==
    IF n < 10 THEN <<DigitChars[n + 1]>>
    ELSE toString(n \div 10) \o <<DigitChars[(n % 10) + 1]>>

\* String.prototype.padStart(targetLength, pad), pad a single character
RECURSIVE padStart(_, _, _)
padStart(chars, targetLength, pad) ==
    IF Len(chars) >= targetLength THEN chars
    ELSE padStart(<<pad>> \o chars, targetLength, pad)

\* secs.toFixed(3)
toFixed3(ms) == toString(ms \div 1000) \o <<".">> \o padStart(toString(ms % 1000), 3, "0")

RECURSIVE DigitsValue(_, _)
DigitsValue(chars, value) ==
    IF chars = <<>> THEN value
    ELSE DigitsValue(Tail(chars), 10 * value + DigitValue(Head(chars)))

\* parseFloat of a decimal numeral with up to three decimals, in milliseconds
parseFloat(chars) ==
    IF \E p \in DOMAIN chars : chars[p] = "."
    THEN LET p == CHOOSE q \in DOMAIN chars : chars[q] = "."
             decimals == SubSeq(chars, p + 1, Len(chars))
             scale == IF Len(decimals) = 1 THEN 100 ELSE IF Len(decimals) = 2 THEN 10 ELSE 1
         IN  DigitsValue(SubSeq(chars, 1, p - 1), 0) * 1000 + DigitsValue(decimals, 0) * scale
    ELSE DigitsValue(chars, 0) * 1000

\* formatTime(seconds)
formatTime(ms) ==
    LET hours == ms \div 3600000
        minutes == (ms % 3600000) \div 60000
        secs == ms % 60000
    IN  IF hours > 0
        THEN padStart(toString(hours), 2, "0") \o <<":">>
             \o padStart(toString(minutes), 2, "0") \o <<":">>
             \o padStart(toFixed3(secs), 6, "0")
        ELSE padStart(toString(minutes), 2, "0") \o <<":">>
             \o padStart(toFixed3(secs), 6, "0")

\* text.replace(/\n/g, ' ')
replaceNewlines(chars) == [i \in DOMAIN chars |-> IF chars[i] = "\n" THEN " " ELSE chars[i]]

\* String.prototype.trim
RECURSIVE trim(_)
trim(chars) ==
    IF chars = <<>> THEN chars
    ELSE IF Head(chars) \in {" ", "\n"} THEN trim(Tail(chars))
    ELSE IF chars[Len(chars)] \in {" ", "\n"} THEN trim(SubSeq(chars, 1, Len(chars) - 1))
    ELSE chars

\* string.replace('.', ','): the first occurrence only
replaceFirst(chars, from, to) ==
    IF \E p \in DOMAIN chars : chars[p] = from
    THEN LET p == CHOOSE q \in DOMAIN chars :
                    chars[q] = from /\ \A k \in 1..(q - 1) : chars[k] # from
         IN  [chars EXCEPT ![p] = to]
    ELSE chars

\* Array.prototype.join(separator)
RECURSIVE join(_, _)
join(pieces, separator) ==
    IF Len(pieces) = 0 THEN <<>>
    ELSE IF Len(pieces) = 1 THEN pieces[1]
    ELSE pieces[1] \o separator \o join(Tail(pieces), separator)

\* formatTranscriptData(rawTranscript)
formatTranscriptData(rawTranscript) ==
    [index \in DOMAIN rawTranscript |->
        LET item == rawTranscript[index]
            start == parseFloat(item.start)
            duration == parseFloat(item.dur)
            end == start + duration
        IN  [start |-> start, end |-> end, duration |-> duration,
             text |-> trim(replaceNewlines(item.text)),
             startTime |-> formatTime(start), endTime |-> formatTime(end)]]

Arrow == <<" ", "-", "-", ">", " ">>
VttHeader == <<"W", "E", "B", "V", "T", "T", "\n", "\n">>

\* A text_only rendering that ends every text with a space.
textOnlySpaced(transcript) ==
    join([index \in DOMAIN transcript |-> transcript[index].text \o <<" ">>], <<>>)

\* formatTranscriptOutput, case TEXT_ONLY
textOnly(transcript) ==
    join([index \in DOMAIN transcript |-> transcript[index].text], <<" ">>)

\* formatTranscriptOutput(transcript, format), for the formats that give a string
formatTranscriptOutput(transcript, format) ==
    IF format = "text_only" THEN textOnly(transcript)
    ELSE IF format = "srt"
    THEN join([index \in DOMAIN transcript |->
                   toString(index) \o <<"\n">>
                   \o replaceFirst(transcript[index].startTime, ".", ",") \o Arrow
                   \o replaceFirst(transcript[index].endTime, ".", ",") \o <<"\n">>
                   \o transcript[index].text \o <<"\n">>],
              <<"\n">>)
    ELSE IF format = "vtt"
    THEN VttHeader
         \o join([index \in DOMAIN transcript |->
                      transcript[index].startTime \o Arrow
                      \o transcript[index].endTime \o <<"\n">>
                      \o transcript[index].text \o <<"\n">>],
                 <<"\n">>)
    ELSE transcript

\* -------------------------------------------------------------------------
\* The chat endpoint (app/api/chat/route.ts)
\* -------------------------------------------------------------------------
\* Two request slots: the chat POSTs that may be in flight together.
Requests == {1, 2}

\* An id source that hands out the same value at every draw.
uuidRepeated(n) == "id1"

\* uuidv4(): the n-th value drawn
uuidv4(n) == "id" \o ToString(n)

NoStr == Str("", 0)                     \* undefined, or the empty string: both falsy
BlankMessage == Str("   ", 3)           \* whitespace only: trim().length = 0
TrimmedLength(s) == IF s = BlankMessage THEN 0 ELSE s.length
Question == Str("question", 8)
TooLong == Str("too long question", MAX_MESSAGE_LENGTH + 1)
Answer == Str("answer", 8)
BadVideoId == "short"

\* A JSON value of the request body, as far as the handler tells values
\* apart: its typeof, and the string or number it is.
Undefined == [type |-> "undefined", str |-> "", num |-> 0]
JsonString(s) == [type |-> "string", str |-> s, num |-> 0]
JsonNumber(n) == [type |-> "number", str |-> "", num |-> n]
\* ToBoolean: undefined, "" and 0 are falsy
Truthy(value) ==
    \/ value.type = "string" /\ value.str # ""
    \/ value.type = "number" /\ value.num # 0

NoBody == [message |-> NoStr, videoId |-> "", sessionId |-> Undefined,
           model |-> Undefined, temperature |-> Undefined, maxTokens |-> Undefined]
NoMessage == [id |-> "", role |-> "", content |-> NoStr, timestamp |-> 0]
NoResponse == [status |-> 0, code |-> "", sessionId |-> "", message |-> NoMessage]

\* A handler that has returned keeps no request body and no context.
Returned(slot) == [slot EXCEPT !.pc = "done", !.body = NoBody, !.trimmedMessages = <<>>]

Idle == [pc |-> "idle", body |-> NoBody, session |-> "", userMessage |-> NoMessage,
         trimmedMessages |-> <<>>, response |-> NoResponse, trace |-> <<>>,
         raced |-> FALSE]

\* A push that keeps only the two most recent messages of the log.
pushCapped(messages, message) == SliceLast(Append(messages, message), 2)

\* Array.prototype.push on a session's messages
push(messages, message) == Append(messages, message)

\* /^[a-zA-Z0-9_-]{11}$/.test(videoId), for ids made of letters
VideoIdFormatOk(videoId) == Len(videoId) = 11

\* Input validation that does not look at the temperature.
validationErrorsLax(body) ==
    (IF body.message.length = 0 \/ TrimmedLength(body.message) = 0
        \/ body.message.length > MAX_MESSAGE_LENGTH
     THEN {"Message is invalid"} ELSE {})
    \cup (IF ~VideoIdFormatOk(body.videoId) THEN {"Invalid YouTube video ID format"} ELSE {})
    \cup (IF Truthy(body.sessionId) /\ body.sessionId.type # "string"
          THEN {"Session ID must be a string if provided"} ELSE {})
    \cup (IF Truthy(body.model) /\ body.model.type # "string"
          THEN {"Model must be a string if provided"} ELSE {})
    \cup (IF body.maxTokens # Undefined
             /\ (body.maxTokens.type # "number" \/ body.maxTokens.num < 1
                 \/ body.maxTokens.num > 8000)
          THEN {"Max tokens must be a number between 1 and 8000"} ELSE {})

\* The validation errors of lines 60-95.
validationErrors(body) ==
    (IF body.message.length = 0 THEN {"Message is required and must be a string"}
     ELSE IF TrimmedLength(body.message) = 0 THEN {"Message cannot be empty"}
     ELSE IF body.message.length > MAX_MESSAGE_LENGTH
          THEN {"Message is too long (maximum 4000 characters)"}
     ELSE {})
    \cup
    (IF body.videoId = "" THEN {"Video ID is required and must be a string"}
     ELSE IF ~VideoIdFormatOk(body.videoId) THEN {"Invalid YouTube video ID format"}
     ELSE {})
    \cup
    (IF Truthy(body.sessionId) /\ body.sessionId.type # "string"
     THEN {"Session ID must be a string if provided"} ELSE {})
    \cup
    (IF Truthy(body.model) /\ body.model.type # "string"
     THEN {"Model must be a string if provided"} ELSE {})
    \cup
    (IF body.temperature # Undefined
        /\ (body.temperature.type # "number" \/ body.temperature.num < 0
            \/ body.temperature.num > 2)
     THEN {"Temperature must be a number between 0 and 2"} ELSE {})
    \cup
    (IF body.maxTokens # Undefined
        /\ (body.maxTokens.type # "number" \/ body.maxTokens.num < 1
            \/ body.maxTokens.num > 8000)
     THEN {"Max tokens must be a number between 1 and 8000"} ELSE {})

\* validateChatSession: the structural check of a session object.
validateChatSession(session) ==
    LET errors ==
            (IF session.id = "" THEN {"Session ID is missing or invalid"} ELSE {})
            \cup (IF session.videoId = "" THEN {"Video ID is missing or invalid"} ELSE {})
    IN  [isValid |-> errors = {}, errors |-> errors]

\* A catch block that answers a failed fetch as a success.
TranscriptErrorStatusOk(errorMessage) == 200

\* Status of the response when fetchTranscriptWithFallback throws (lines 138-198).
TranscriptErrorStatus(errorMessage) ==
    IF Includes(errorMessage, "video unavailable") \/ Includes(errorMessage, "not found")
    THEN 404
    ELSE IF Includes(errorMessage, "no captions") \/ Includes(errorMessage, "no subtitles")
    THEN 400
    ELSE IF Includes(errorMessage, "private") \/ Includes(errorMessage, "restricted")
    THEN 403
    ELSE IF Includes(errorMessage, "rate limit") \/ Includes(errorMessage, "too many requests")
    THEN 429
    ELSE 500

\* parseOpenAIError: the status code of the structured error; an error is
\* [status, message], status 0 standing for undefined.
parseOpenAIError(error) ==
    IF error.status = 401 \/ Includes(error.message, "invalid api key") THEN 401
    ELSE IF error.status = 429 \/ Includes(error.message, "rate limit") THEN 429
    ELSE IF error.status = 402 \/ Includes(error.message, "quota")
            \/ Includes(error.message, "billing") THEN 402
    ELSE IF error.status = 404 \/ Includes(error.message, "model not found") THEN 404
    ELSE IF Includes(error.message, "content filter") \/ Includes(error.message, "safety")
    THEN 400
    ELSE IF Includes(error.message, "network") \/ Includes(error.message, "timeout")
    THEN 503
    ELSE IF error.status # 0 THEN error.status ELSE 500

\* What fetchTranscriptWithFallback(videoId) does for the chat endpoint, over
\* every behaviour of the source for the default languages: the captions, or
\* a thrown YouTubeTranscriptError (its message, as the phrases it includes).
Sources(langs) == [{langs[i] : i \in DOMAIN langs} -> SourceOutcomes]
FetchOutcomes ==
    {LET fetched == fetchTranscriptWithFallback(source, "en", DEFAULT_FALLBACK_LANGS)
     IN  [ok |-> fetched.pc = "returned", errorMessage |-> fetched.error.message] :
        source \in Sources(DEFAULT_FALLBACK_LANGS)}

\* What openai.chat.completions.create does: a completion with content, a
\* completion without content, or a thrown error.
CompletionOutcomes ==
    { [content |-> Answer, threw |-> FALSE, error |-> [status |-> 0, message |-> {}]],
      [content |-> NoStr, threw |-> FALSE, error |-> [status |-> 0, message |-> {}]],
      [content |-> NoStr, threw |-> TRUE, error |-> [status |-> 429, message |-> {"rate limit"}]] }

\* The Map chatSessions as a function from key to session object.
SessionMap == [sessionId \in chatSessions |-> heap[sessionId]]

\* A well-formed body for a first turn on VideoShort.
FirstTurn == [NoBody EXCEPT !.message = Question, !.videoId = VideoShort]

\* Well-formed request bodies: a first turn, or a turn on a session id that
\* is unknown, stored, or deleted.
WellFormedBodies ==
    {[FirstTurn EXCEPT !.videoId = v, !.sessionId = s] :
        v \in Videos,
        s \in {Undefined} \cup {JsonString(id) : id \in {"unknown"} \cup DOMAIN heap}}

\* Bodies with one field that is missing, malformed, of the wrong type or
\* out of range.
OddBodies ==
    {[FirstTurn EXCEPT !.message = m] : m \in {NoStr, BlankMessage, TooLong}}
    \cup {[FirstTurn EXCEPT !.videoId = BadVideoId]}
    \cup {[FirstTurn EXCEPT !.sessionId = JsonNumber(n)] : n \in {0, 42}}
    \cup {[FirstTurn EXCEPT !.model = JsonNumber(42)]}
    \cup {[FirstTurn EXCEPT !.temperature = JsonNumber(n)] : n \in {0 - 1, 3}}
    \cup {[FirstTurn EXCEPT !.maxTokens = JsonNumber(n)] : n \in {0, 8001}}

\* Request bodies a client may send. The two request slots are
\* interchangeable, so the odd bodies are sent in the first one only.
Bodies(r) == IF r = 1 THEN WellFormedBodies \cup OddBodies ELSE WellFormedBodies

ServerInit ==
    /\ chatSessions = {}
    /\ heap = <<>>
    /\ now = 0
    /\ uuidCount = 0
    /\ req = [r \in Requests |-> Idle]

\* The clock moves on between handler steps.
\* Clock values at which handler steps run: a session last updated at 0 is
\* older than the default maximum age at the last one, one updated at 1 is
\* exactly at the cutoff.
Times == {0, 1, DEFAULT_MAX_AGE + 1}
Tick ==
    /\ \E t \in Times : t > now /\ now' = t
    /\ UNCHANGED <<chatSessions, heap, uuidCount, req, call>>

\* POST, lines 47-57: the probabilistic sweep, then await request.json().
PostBegin(r) ==
    /\ req[r].pc \in {"idle", "done"}
    /\ uuidCount < MaxUuid
    /\ \E body \in Bodies(r), sweep \in BOOLEAN :
        /\ chatSessions' =
              IF sweep
              THEN DOMAIN cleanupOldSessions(SessionMap, DEFAULT_MAX_AGE, now).sessions
              ELSE chatSessions
        /\ req' = [req EXCEPT ![r] = [Idle EXCEPT !.pc = "parsing", !.body = body]]
    /\ UNCHANGED <<heap, now, uuidCount, call>>

\* A turn that builds its context before the user message is in the log.
TurnHeapWithoutPush(h, sessionId, userMessage) == h

\* Lines 201-235, run without suspension on session object `sessionId` of heap
\* `h` (the heap after a possible creation), drawing its uuid as number `n`:
\* the user message is pushed, the session validated, the context built and
\* trimmed, and the handler suspends on the completion call.
TurnHeap(h, sessionId, userMessage) ==
    [h EXCEPT ![sessionId].messages = push(h[sessionId].messages, userMessage)]

RacesWith(r, sessionId) ==
    {o \in Requests \ {r} : req[o].pc = "completing" /\ req[o].session = sessionId}

StartTurn(r, h, sessionId, n, traceSoFar) ==
    LET userMessage == [id |-> uuidv4(n), role |-> "user",
                        content |-> req[r].body.message, timestamp |-> now]
        h2 == TurnHeap(h, sessionId, userMessage)
        validation == validateChatSession(h2[sessionId])
        contextMessages == buildConversationContext(h2[sessionId], TRUE)
        trimmedMessages == trimContextToTokenLimit(contextMessages, CHAT_TOKEN_BUDGET)
        racing == RacesWith(r, sessionId)
    IN  /\ heap' = h2
        /\ uuidCount' = n
        /\ req' = [o \in Requests |->
                    IF o = r
                    THEN IF validation.isValid
                         THEN [req[r] EXCEPT
                                 !.pc = "completing", !.session = sessionId,
                                 !.userMessage = userMessage,
                                 !.trimmedMessages = trimmedMessages,
                                 !.trace = traceSoFar \o <<"push user message",
                                                          "session validation passed">>,
                                 !.raced = racing # {}]
                         ELSE [Returned(req[r]) EXCEPT
                                 !.session = sessionId,
                                 !.userMessage = userMessage,
                                 !.trace = traceSoFar \o <<"push user message",
                                                          "session validation failed">>,
                                 !.response = [NoResponse EXCEPT !.status = 400]]
                    ELSE IF o \in racing THEN [req[o] EXCEPT !.raced = TRUE]
                    ELSE req[o]]

\* Lines 58-110 and, for a stored session, 201-235: validation of the body,
\* the lookup in chatSessions, and either the turn or the transcript fetch.
PostHandle(r) ==
    /\ req[r].pc = "parsing"
    /\ LET body == req[r].body
           \* sessionId ? chatSessions.get(sessionId) : null
           session == IF Truthy(body.sessionId) /\ body.sessionId.str \in chatSessions
                      THEN body.sessionId.str ELSE ""
       IN  IF validationErrors(body) # {}
           THEN /\ req' = [req EXCEPT ![r] =
                              [Returned(req[r]) EXCEPT
                                 !.trace = <<"input validation failed">>,
                                 !.response = [NoResponse EXCEPT
                                                 !.status = 400,
                                                 !.code = "VALIDATION_ERROR"]]]
                /\ UNCHANGED <<heap, uuidCount>>
           ELSE IF session # ""
           THEN /\ uuidCount + 1 <= MaxUuid
                /\ StartTurn(r, heap, session, uuidCount + 1, <<"input validation passed">>)
           ELSE /\ req' = [req EXCEPT ![r].pc = "fetching",
                                      ![r].trace = <<"input validation passed">>]
                /\ UNCHANGED <<heap, uuidCount>>
    /\ UNCHANGED <<chatSessions, now, call>>

\* Lines 113-199 and 201-235 once fetchTranscriptWithFallback settles: a new
\* session is stored and the turn started, or the error is answered.
PostFetched(r) ==
    /\ req[r].pc = "fetching"
    /\ \E outcome \in FetchOutcomes :
        IF outcome.ok
        THEN LET videoId == req[r].body.videoId
                 id == uuidv4(uuidCount + 1)
                 session == [id |-> id, videoId |-> videoId,
                             videoTitle |-> extractVideoTitle(videoId),
                             videoUrl |-> VideoUrl(videoId),
                             transcript |-> TranscriptOf(videoId),
                             messages |-> <<>>,
                             createdAt |-> now, updatedAt |-> now]
                 h == [k \in DOMAIN heap \cup {id} |-> IF k = id THEN session ELSE heap[k]]
             IN  /\ uuidCount + 2 <= MaxUuid
                 /\ chatSessions' = chatSessions \cup {id}
                 /\ StartTurn(r, h, id, uuidCount + 2,
                              req[r].trace \o <<"session created">>)
        ELSE /\ req' = [req EXCEPT ![r] =
                           [Returned(req[r]) EXCEPT
                              !.trace = @ \o <<"transcript fetch failed">>,
                              !.response = [NoResponse EXCEPT
                                  !.status = TranscriptErrorStatus(outcome.errorMessage)]]]
             /\ UNCHANGED <<chatSessions, heap, uuidCount>>
    /\ UNCHANGED <<now, call>>

\* A catch block that rolls the turn back by popping the last message.
SessionRolledBack(session) ==
    [session EXCEPT !.messages = SubSeq(@, 1, Len(@) - 1)]

\* The catch block of lines 271-325: the session as the failed turn leaves it.
SessionAfterFailure(session) == session

\* Lines 237-269: the assistant message is pushed and updatedAt set.
SessionAfterAnswer(session, assistantMessage) ==
    [session EXCEPT !.messages = push(session.messages, assistantMessage),
                    !.updatedAt = now]

\* Lines 236-325 once the completion call settles.
PostCompleted(r) ==
    /\ req[r].pc = "completing"
    /\ \E outcome \in CompletionOutcomes :
        LET sessionId == req[r].session
            assistantMessage == [id |-> uuidv4(uuidCount + 1), role |-> "assistant",
                                 content |-> outcome.content, timestamp |-> now]
            \* no content: throw new Error('No response from OpenAI')
            error == IF outcome.threw THEN outcome.error
                     ELSE [status |-> 0, message |-> {}]
        IN  IF ~outcome.threw /\ outcome.content.length > 0
            THEN /\ uuidCount + 1 <= MaxUuid
                 /\ heap' = [heap EXCEPT ![sessionId] =
                                SessionAfterAnswer(heap[sessionId], assistantMessage)]
                 /\ uuidCount' = uuidCount + 1
                 /\ req' = [req EXCEPT ![r] =
                        [Returned(req[r]) EXCEPT
                           !.trace = @ \o <<"completion succeeded", "push assistant message">>,
                           !.response = [status |-> 200, code |-> "",
                                         sessionId |-> heap[sessionId].id,
                                         message |-> assistantMessage]]]
            ELSE /\ heap' = [heap EXCEPT ![sessionId] = SessionAfterFailure(heap[sessionId])]
                 /\ uuidCount' = uuidCount
                 /\ req' = [req EXCEPT ![r] =
                        [Returned(req[r]) EXCEPT
                           !.trace = @ \o <<"completion failed">>,
                           !.response = [NoResponse EXCEPT
                                           !.status = parseOpenAIError(error)]]]
    /\ UNCHANGED <<chatSessions, now, call>>

\* getSessionStats
getSessionStats(session) ==
    [totalMessages |-> Len(session.messages),
     userMessages |-> Cardinality({i \in DOMAIN session.messages :
                                     session.messages[i].role = "user"}),
     assistantMessages |-> Cardinality({i \in DOMAIN session.messages :
                                          session.messages[i].role = "assistant"}),
     transcriptSegments |-> Len(session.transcript),
     sessionDurationMs |-> session.updatedAt - session.createdAt,
     lastActivity |-> session.updatedAt]

\* GET /api/chat?sessionId=...: the response; it reads the store only.
GET(sessionId) ==
    IF sessionId = "" THEN [status |-> 400]
    ELSE IF sessionId \notin chatSessions THEN [status |-> 404]
    ELSE [status |-> 200, session |-> heap[sessionId],
          statistics |-> getSessionStats(heap[sessionId])]

SessionGet ==
    /\ \E sessionId \in {"", "unknown"} \cup DOMAIN heap :
          GET(sessionId).status \in {200, 400, 404}
    /\ UNCHANGED vars

\* DELETE /api/chat?sessionId=...: chatSessions.delete(sessionId)
SessionDelete ==
    /\ \E sessionId \in DOMAIN heap :
          /\ sessionId \in chatSessions
          /\ chatSessions' = chatSessions \ {sessionId}
    /\ UNCHANGED <<heap, now, uuidCount, req, call>>

\* -------------------------------------------------------------------------
\* Pure-function harness: one call per behaviour, arguments drawn in Init
\* -------------------------------------------------------------------------
NoCall == [fn |-> "none", pc |-> "none"]

ConvMessages == {[role |-> r, content |-> c] :
                    r \in {"user", "assistant"},
                    c \in {Str("a", 0), Str("b", 3), Str("c", 8)}}
SystemMessages == {[role |-> "system", content |-> Str("sys", n)] : n \in {4, 12}}
ConvLists == UNION {[1..n -> ConvMessages] : n \in 0..MaxConv}
MessageLists == ConvLists \cup {<<s>> \o l : s \in SystemMessages, l \in ConvLists}

\* A session whose log holds n messages, user and assistant alternating; the
\* i-th message has content of length i, so that messages are told apart.
StoredMessage(i) ==
    [id |-> "m" \o ToString(i),
     role |-> IF i % 2 = 1 THEN "user" ELSE "assistant",
     content |-> Str("message " \o ToString(i), i),
     timestamp |-> i]
HarnessSession(videoId, n) ==
    [id |-> "s1", videoId |-> videoId,
     videoTitle |-> extractVideoTitle(videoId), videoUrl |-> VideoUrl(videoId),
     transcript |-> TranscriptOf(videoId),
     messages |-> [i \in 1..n |-> StoredMessage(i)],
     createdAt |-> 0, updatedAt |-> n]

HarnessSessionAt(id, t) ==
    [id |-> id, videoId |-> VideoShort,
     videoTitle |-> extractVideoTitle(VideoShort), videoUrl |-> VideoUrl(VideoShort),
     transcript |-> TranscriptOf(VideoShort), messages |-> <<>>,
     createdAt |-> 0, updatedAt |-> t]
HarnessIds == {"s1", "s2"}
HarnessStores(clock) ==
    UNION {{[id \in ids |-> HarnessSessionAt(id, f[id])] : f \in [ids -> 0..clock]} :
              ids \in SUBSET HarnessIds}

TrimInputs ==
    {[fn |-> "trim", pc |-> "input", messages |-> m, maxTokens |-> b] :
        m \in MessageLists, b \in 0..MaxBudget}
BuildInputs ==
    {[fn |-> "build", pc |-> "input", session |-> HarnessSession(v, n),
      includeSystemPrompt |-> inc] :
        v \in Videos, n \in 0..MaxStored, inc \in BOOLEAN}
CleanupInputs ==
    UNION {{[fn |-> "cleanup", pc |-> "input", sessions |-> st, maxAge |-> a, clock |-> c] :
                st \in HarnessStores(c), a \in 0..MaxClock} : c \in 0..MaxClock}

TrimCall ==
    /\ call.fn = "trim" /\ call.pc = "input"
    /\ call' = [fn |-> "trim", pc |-> "returned",
                messages |-> call.messages, maxTokens |-> call.maxTokens,
                result |-> trimContextToTokenLimit(call.messages, call.maxTokens)]
    /\ UNCHANGED serverVars

\* trimContextToTokenLimit applied to its own output, with the same budget.
TrimAgainCall ==
    /\ call.fn = "trim" /\ call.pc = "returned"
    /\ call' = [fn |-> "trim", pc |-> "reapplied",
                messages |-> call.messages, maxTokens |-> call.maxTokens,
                result |-> call.result,
                result2 |-> trimContextToTokenLimit(call.result, call.maxTokens)]
    /\ UNCHANGED serverVars

BuildCall ==
    /\ call.fn = "build" /\ call.pc = "input"
    /\ call' = [fn |-> "build", pc |-> "returned",
                session |-> call.session, includeSystemPrompt |-> call.includeSystemPrompt,
                result |-> buildConversationContext(call.session, call.includeSystemPrompt)]
    /\ UNCHANGED serverVars

CleanupCall ==
    /\ call.fn = "cleanup" /\ call.pc = "input"
    /\ call' = [fn |-> "cleanup", pc |-> "returned",
                sessions |-> call.sessions, maxAge |-> call.maxAge, clock |-> call.clock,
                result |-> cleanupOldSessions(call.sessions, call.maxAge, call.clock)]
    /\ UNCHANGED serverVars


\* -------------------------------------------------------------------------
\* The transcript endpoint (app/api/transcript/route.ts) and the fetch of the
\* chat endpoint, one request per behaviour
\* -------------------------------------------------------------------------
\* getStatusCodeForError
getStatusCodeForError(errorCode) ==
    IF errorCode = "INVALID_URL" THEN 400
    ELSE IF errorCode \in {"VIDEO_NOT_FOUND", "NO_CAPTIONS_AVAILABLE", "LANGUAGE_NOT_AVAILABLE"}
    THEN 404
    ELSE IF errorCode \in {"PRIVATE_VIDEO", "REGION_BLOCKED"} THEN 403
    ELSE IF errorCode = "RATE_LIMITED" THEN 429
    ELSE IF errorCode = "NETWORK_ERROR" THEN 502
    ELSE 500

\* The languages a client of the transcript endpoint asks for, and the
\* fallback list it supplies: the first MaxFallback of the default one.
PreferredLangs == {"en", "es", "fr"}
ClientFallbackLangs == SubSeq(DEFAULT_FALLBACK_LANGS, 1, MaxFallback)

\* A request whose handler is about to fetch: the chat endpoint calls
\* fetchTranscriptWithFallback(videoId), the transcript endpoint passes lang
\* and fallbackLanguages, or calls fetchTranscript when useFallback is false.
FetchRequest(endpoint, useFallback, source, lang, fallbackLangs) ==
    [fn |-> "fetch", pc |-> "fetching", endpoint |-> endpoint,
     useFallback |-> useFallback, status |-> 0,
     loop |-> FallbackEntry(source, lang, fallbackLangs)]

FetchInputs ==
    {FetchRequest("chat", TRUE, source, "en", DEFAULT_FALLBACK_LANGS) :
        source \in Sources(DEFAULT_FALLBACK_LANGS)}
    \cup UNION {{FetchRequest("transcript", useFallback, source, lang, ClientFallbackLangs) :
                    source \in Sources(langsToTry(lang, ClientFallbackLangs)),
                    useFallback \in BOOLEAN} :
                 lang \in PreferredLangs}

\* One iteration of the loop of fetchTranscriptWithFallback.
FallbackAttempt ==
    /\ call.fn = "fetch" /\ call.pc = "fetching" /\ call.useFallback
    /\ call.loop.pc = "trying"
    /\ Len(call.loop.attempts) < Len(call.loop.langsToTry)
    /\ call' = [call EXCEPT !.loop = FallbackStep(@)]
    /\ UNCHANGED serverVars

\* The loop has run out of languages: the throw of lines 322-331.
FallbackExhausted ==
    /\ call.fn = "fetch" /\ call.pc = "fetching" /\ call.useFallback
    /\ call.loop.pc = "trying"
    /\ Len(call.loop.attempts) = Len(call.loop.langsToTry)
    /\ call' = [call EXCEPT !.loop = FallbackStep(@)]
    /\ UNCHANGED serverVars

\* useFallback false: the transcript endpoint calls fetchTranscript(videoId, lang).
DirectFetch ==
    /\ call.fn = "fetch" /\ call.pc = "fetching" /\ ~call.useFallback
    /\ call.loop.pc = "trying"
    /\ LET lang == call.loop.preferredLang
           fetched == fetchTranscript(call.loop.source, lang)
       IN  call' = [call EXCEPT
                      !.loop.pc = IF fetched.ok THEN "returned" ELSE "thrown",
                      !.loop.attempts = <<lang>>,
                      !.loop.language = IF fetched.ok THEN lang ELSE "",
                      !.loop.error = fetched.error]
    /\ UNCHANGED serverVars

\* The endpoint answers: 200 with the transcript, or the status its catch
\* block gives the thrown error (chat: by the message, route.ts:138-198;
\* transcript: by the code, getStatusCodeForError).
FetchAnswer ==
    /\ call.fn = "fetch" /\ call.pc = "fetching"
    /\ call.loop.pc \in {"returned", "thrown"}
    /\ call' = [call EXCEPT
                  !.pc = "answered",
                  !.status = IF call.loop.pc = "returned" THEN 200
                             ELSE IF call.endpoint = "chat"
                             THEN TranscriptErrorStatus(call.loop.error.message)
                             ELSE getStatusCodeForError(call.loop.error.code)]
    /\ UNCHANGED serverVars

\* -------------------------------------------------------------------------
\* Relevance scorer harness: one call per behaviour
\* -------------------------------------------------------------------------
\* The words of a query: none, "ab", "aba", "a.a" and "(ab".
QueryWords ==
    { <<>>, <<"a", "b">>, <<"a", "b", "a">>, <<"a", ".", "a">>, <<"(", "a", "b">> }

\* words.join(' '): an empty word gives a leading, trailing or double space
RECURSIVE JoinWords(_)
JoinWords(words) ==
    IF Len(words) = 0 THEN <<>>
    ELSE IF Len(words) = 1 THEN words[1]
    ELSE words[1] \o <<" ">> \o JoinWords(Tail(words))
Queries == {JoinWords(words) : words \in UNION {[1..n -> QueryWords] : n \in 0..MaxWords}}

\* The texts of segments: "Aba aba", "aaa" and "bb".
SegmentTexts ==
    { <<"A", "b", "a", " ", "a", "b", "a">>, <<"a", "a", "a">>, <<"b", "b">> }

\* Transcripts of up to MaxSegments segments, one second each.
Transcripts ==
    UNION {{[i \in 1..n |-> [start |-> i - 1, dur |-> 1, text |-> texts[i]]] :
                texts \in [1..n -> SegmentTexts]} : n \in 0..MaxSegments}

SegmentsInputs ==
    {[fn |-> "segments", pc |-> "input", query |-> q, transcript |-> t, maxSegments |-> m] :
        q \in Queries, t \in Transcripts, m \in 0..(MaxSegments + 1)}

SegmentsCall ==
    /\ call.fn = "segments" /\ call.pc = "input"
    /\ call' = [fn |-> "segments", pc |-> "returned",
                query |-> call.query, transcript |-> call.transcript,
                maxSegments |-> call.maxSegments,
                result |-> findRelevantTranscriptSegments(call.query, call.transcript,
                                                          call.maxSegments)]
    /\ UNCHANGED serverVars

\* -------------------------------------------------------------------------
\* Formatter harness: formatTranscriptData, then formatTranscriptOutput
\* -------------------------------------------------------------------------
\* Captions as the source gives them: start and dur are numerals.
RawHello == [start |-> <<"0">>, dur |-> <<"2">>, text |-> <<"h", "e", "l", "l", "o">>]
RawWorld == [start |-> <<"2">>, dur |-> <<"3">>, text |-> <<"w", "o", "r", "l", "d">>]
\* " hi\nyou " from 59:59.5 for half a second: it ends at one hour
RawHour == [start |-> <<"3", "5", "9", "9", ".", "5">>, dur |-> <<"0", ".", "5">>,
            text |-> <<" ", "h", "i", "\n", "y", "o", "u", " ">>]
\* "ok" from 1:01:01.25 for a second and a half
RawLate == [start |-> <<"3", "6", "6", "1", ".", "2", "5">>, dur |-> <<"1", ".", "5">>,
            text |-> <<"o", "k">>]
RawItems == {RawHello, RawWorld, RawHour, RawLate}
RawTranscripts == UNION {[1..n -> RawItems] : n \in 0..MaxSegments}
StringFormats == {"text_only", "srt", "vtt"}

FormatInputs ==
    {[fn |-> "format", pc |-> "input", rawTranscript |-> t, format |-> f,
      formatted |-> <<>>, result |-> <<>>] :
        t \in RawTranscripts, f \in StringFormats}

\* transcript route, line 117
FormatDataCall ==
    /\ call.fn = "format" /\ call.pc = "input"
    /\ call' = [call EXCEPT !.pc = "formatted",
                            !.formatted = formatTranscriptData(call.rawTranscript)]
    /\ UNCHANGED serverVars

\* transcript route, line 118
FormatOutputCall ==
    /\ call.fn = "format" /\ call.pc = "formatted"
    /\ call' = [call EXCEPT !.pc = "returned",
                            !.result = formatTranscriptOutput(call.formatted, call.format)]
    /\ UNCHANGED serverVars

\* -------------------------------------------------------------------------
\* Transcript rendering harness: formatTranscriptContext around the ceiling
\* -------------------------------------------------------------------------
\* A transcript of one caption at 0:00 whose rendering `[0:00] text` has the
\* given length, or of that caption followed by "world" at 0:02, twelve
\* characters and a newline more.
CaptionsRendering(length, second) ==
    <<[start |-> 0, dur |-> 2, text |-> Str("caption", length - 7)]>>
    \o (IF second THEN <<[start |-> 2, dur |-> 3, text |-> Str("world", 5)]>> ELSE <<>>)

RenderInputs ==
    {[fn |-> "render", pc |-> "input", videoId |-> VideoShort,
      transcript |-> CaptionsRendering(length, second)] :
        length \in (MAX_TRANSCRIPT_CHARS - MaxOver)..(MAX_TRANSCRIPT_CHARS + MaxOver),
        second \in BOOLEAN}
    \cup {[fn |-> "render", pc |-> "input", videoId |-> v, transcript |-> TranscriptOf(v)] :
            v \in Videos}
    \cup {[fn |-> "render", pc |-> "input", videoId |-> VideoShort, transcript |-> <<>>]}

RenderCall ==
    /\ call.fn = "render" /\ call.pc = "input"
    /\ call' = [fn |-> "render", pc |-> "returned",
                videoId |-> call.videoId, transcript |-> call.transcript,
                result |-> formatTranscriptContext(call.videoId, call.transcript)]
    /\ UNCHANGED serverVars

\* -------------------------------------------------------------------------
\* The parameters of the completion call (route.ts lines 230-235), one
\* request body per behaviour
\* -------------------------------------------------------------------------
\* OPENAI_CONFIG (lib/openai.ts). The temperature is 0.7; temperatures are
\* counted in tenths where they are sent, so that 0.7 is the integer 7.
DEFAULT_MODEL == "gpt-4o-mini"
MAX_TOKENS == 4000
TEMPERATURE == 7
Tenths(n) == 10 * n

\* The arguments of openai.chat.completions.create other than the messages:
\* `value || default` takes the default for every falsy value.
completionParameters(body) ==
    [model |-> IF Truthy(body.model) THEN body.model.str ELSE DEFAULT_MODEL,
     max_tokens |-> IF Truthy(body.maxTokens) THEN body.maxTokens.num ELSE MAX_TOKENS,
     temperature |-> IF Truthy(body.temperature)
                     THEN Tenths(body.temperature.num) ELSE TEMPERATURE]

\* Bodies of a first turn with every combination of a model, a temperature
\* and a maxTokens that is omitted, supplied within range, or out of range.
ParameterBodies ==
    {[FirstTurn EXCEPT !.videoId = v, !.model = m, !.temperature = t, !.maxTokens = k] :
        v \in Videos,
        m \in {Undefined, JsonString("gpt-4o")},
        t \in {Undefined} \cup {JsonNumber(n) : n \in {0 - 1, 0, 1, 2, 3}},
        k \in {Undefined} \cup {JsonNumber(n) : n \in {0, 1, 256, 8000, 8001}}}

ParameterInputs == {[fn |-> "parameters", pc |-> "input", body |-> b] : b \in ParameterBodies}

\* The body is rejected by the validation.
ParametersRejected ==
    /\ call.fn = "parameters" /\ call.pc = "input"
    /\ validationErrors(call.body) # {}
    /\ call' = [fn |-> "parameters", pc |-> "rejected", body |-> call.body]
    /\ UNCHANGED serverVars

\* The body passes the validation and the completion call is made.
ParametersSent ==
    /\ call.fn = "parameters" /\ call.pc = "input"
    /\ validationErrors(call.body) = {}
    /\ call' = [fn |-> "parameters", pc |-> "sent", body |-> call.body,
                sent |-> completionParameters(call.body)]
    /\ UNCHANGED serverVars

\* -------------------------------------------------------------------------
\* The browser client (app/page.tsx) in front of the chat endpoint
\* -------------------------------------------------------------------------
\* The state of the Home component is held in `call`: the React state
\* variables, the transcript request in flight, and for each chat request in
\* flight the values its sendMessage closure captured when it was called.
\* A displayed message is [kind, videoId]: a user message, a reply of the
\* server, or the error message of the catch block, and the video it is about.
NoChat == [active |-> FALSE, videoId |-> "", sessionId |-> "", reloaded |-> FALSE]

Displayed(kind, videoId) == [kind |-> kind, videoId |-> videoId]

\* fetchTranscript, lines 59-76: the conversation is reset, then the
\* transcript endpoint is called. The button is taken to be inert while a
\* transcript is loading.
ClientFetchTranscript ==
    /\ call.fn = "client"
    /\ ~call.isLoadingTranscript
    /\ \E extractedVideoId \in Videos :
        call' = [call EXCEPT
                   !.isLoadingTranscript = TRUE,
                   !.extractedVideoId = extractedVideoId,
                   !.transcriptLoaded = FALSE,
                   !.messages = <<>>,
                   !.sessionId = "",
                   !.chats = [r \in Requests |->
                                IF call.chats[r].active
                                THEN [call.chats[r] EXCEPT !.reloaded = TRUE]
                                ELSE call.chats[r]]]
    /\ UNCHANGED serverVars

\* fetchTranscript, lines 78-114: the transcript endpoint has answered.
ClientTranscriptAnswer ==
    /\ call.fn = "client"
    /\ call.isLoadingTranscript
    /\ \E ok \in BOOLEAN :
        call' = [call EXCEPT
                   !.isLoadingTranscript = FALSE,
                   !.extractedVideoId = "",
                   !.videoId = IF ok THEN call.extractedVideoId ELSE @,
                   !.transcriptLoaded = ok]
    /\ UNCHANGED serverVars

\* sendMessage, lines 118-146, and the arrival of its request at the chat
\* endpoint (POST, lines 47-57). The chat card is rendered only while a
\* transcript is shown; the Enter key sends whether or not a chat is loading.
ClientSend(r) ==
    /\ call.fn = "client"
    /\ call.transcriptLoaded /\ call.videoId # ""
    /\ ~call.chats[r].active
    /\ Len(call.messages) < MaxDisplayed
    /\ req[r].pc \in {"idle", "done"}
    /\ uuidCount < MaxUuid
    /\ LET body == [FirstTurn EXCEPT
                      !.videoId = call.videoId,
                      !.sessionId = IF call.sessionId = "" THEN Undefined
                                    ELSE JsonString(call.sessionId)]
       IN  \E sweep \in BOOLEAN :
            /\ chatSessions' =
                  IF sweep
                  THEN DOMAIN cleanupOldSessions(SessionMap, DEFAULT_MAX_AGE, now).sessions
                  ELSE chatSessions
            /\ req' = [req EXCEPT ![r] = [Idle EXCEPT !.pc = "parsing", !.body = body]]
    /\ call' = [call EXCEPT
                  !.messages = Append(@, Displayed("user", call.videoId)),
                  !.isLoadingChat = TRUE,
                  !.chats[r] = [active |-> TRUE, videoId |-> call.videoId,
                                sessionId |-> call.sessionId, reloaded |-> FALSE]]
    /\ UNCHANGED <<heap, now, uuidCount>>

\* Lines 155-157: if (!sessionId) setSessionId(data.sessionId), on the
\* sessionId that the closure captured.
sessionIdAfter(sessionId, current, data) ==
    IF sessionId = "" THEN data.sessionId ELSE current

\* sendMessage, lines 148-169: the response of the chat endpoint is handled.
ClientReceive(r) ==
    /\ call.fn = "client"
    /\ call.chats[r].active
    /\ req[r].pc = "done"
    /\ LET data == req[r].response
           closure == call.chats[r]
       IN  IF data.status = 200
           THEN call' = [call EXCEPT
                   !.messages = Append(@, Displayed("reply", heap[data.sessionId].videoId)),
                   !.sessionId = sessionIdAfter(closure.sessionId, @, data),
                   !.isLoadingChat = FALSE,
                   !.chats[r] = NoChat]
           ELSE call' = [call EXCEPT
                   !.messages = Append(@, Displayed("error", closure.videoId)),
                   !.isLoadingChat = FALSE,
                   !.chats[r] = NoChat]
    \* the handler that answered is gone with its locals
    /\ req' = [req EXCEPT ![r] = Idle]
    /\ UNCHANGED <<chatSessions, heap, now, uuidCount>>

\* -------------------------------------------------------------------------
\* Specifications
\* -------------------------------------------------------------------------
Init ==
    /\ ServerInit
    /\ call = NoCall

Next ==
    \/ Tick
    \/ \E r \in Requests : PostBegin(r)
    \/ \E r \in Requests : PostHandle(r)
    \/ \E r \in Requests : PostFetched(r)
    \/ \E r \in Requests : PostCompleted(r)
    \/ SessionGet
    \/ SessionDelete

\* The chat endpoint under every interleaving of its handlers' steps.
Spec == Init /\ [][Next]_vars

\* A session left in the store by ten earlier turns on VideoLong: its log
\* holds MAX_CONTEXT_MESSAGES messages and its id, the first uuid drawn, has
\* reached the client.
StoredSession ==
    LET session == HarnessSession(VideoLong, MAX_CONTEXT_MESSAGES)
    IN  [session EXCEPT !.id = uuidv4(1),
                        !.messages = [i \in DOMAIN @ |-> [@[i] EXCEPT !.timestamp = 0]],
                        !.updatedAt = 0]

StoredInit ==
    /\ chatSessions = {StoredSession.id}
    /\ heap = [sessionId \in {StoredSession.id} |-> StoredSession]
    /\ now = 0
    /\ uuidCount = 1
    /\ req = [r \in Requests |-> Idle]
    /\ call = NoCall

\* The chat endpoint serving a server that already holds a session.
SpecStored == StoredInit /\ [][Next]_vars

PureInit ==
    /\ ServerInit
    /\ call \in TrimInputs \cup BuildInputs \cup CleanupInputs

PureNext ==
    \/ TrimCall
    \/ TrimAgainCall
    \/ BuildCall
    \/ CleanupCall

\* The pure functions of chat-context.ts, each on every input within the bounds.
SpecPure == PureInit /\ [][PureNext]_vars

FetchInit ==
    /\ ServerInit
    /\ call \in FetchInputs

FetchNext ==
    \/ FallbackAttempt
    \/ FallbackExhausted
    \/ DirectFetch
    \/ FetchAnswer

\* A transcript fetch of either endpoint, over every behaviour of the source.
SpecFetch == FetchInit /\ [][FetchNext]_vars

SegmentsInit ==
    /\ ServerInit
    /\ call \in SegmentsInputs

SegmentsNext == SegmentsCall

\* findRelevantTranscriptSegments on every input within the bounds.
SpecSegments == SegmentsInit /\ [][SegmentsNext]_vars

FormatInit ==
    /\ ServerInit
    /\ call \in FormatInputs

FormatNext ==
    \/ FormatDataCall
    \/ FormatOutputCall

\* The formatters of the transcript endpoint on every input within the bounds.
SpecFormat == FormatInit /\ [][FormatNext]_vars

RenderInit ==
    /\ ServerInit
    /\ call \in RenderInputs

RenderNext == RenderCall

\* formatTranscriptContext on transcripts rendered just under and over the ceiling.
SpecRender == RenderInit /\ [][RenderNext]_vars

\* A session as one turn on VideoLong leaves it, and the client that took
\* that turn: it shows the two messages and holds the session's id.
TurnedSession == [StoredSession EXCEPT !.messages = SubSeq(@, 1, 2)]

ClientAfterTurn ==
    [fn |-> "client", videoId |-> TurnedSession.videoId, transcriptLoaded |-> TRUE,
     messages |-> <<Displayed("user", TurnedSession.videoId),
                    Displayed("reply", TurnedSession.videoId)>>,
     sessionId |-> TurnedSession.id,
     isLoadingTranscript |-> FALSE, extractedVideoId |-> "",
     isLoadingChat |-> FALSE,
     chats |-> [r \in Requests |-> NoChat]]

\* The server holds the session of the client's first turn.
ClientInit ==
    /\ chatSessions = {TurnedSession.id}
    /\ heap = [sessionId \in {TurnedSession.id} |-> TurnedSession]
    /\ now = 0
    /\ uuidCount = 1
    /\ req = [r \in Requests |-> Idle]
    /\ call = ClientAfterTurn

ClientNext ==
    \/ ClientFetchTranscript
    \/ ClientTranscriptAnswer
    \/ \E r \in Requests : ClientSend(r)
    \/ \E r \in Requests : ClientReceive(r)
    \/ \E r \in Requests : PostHandle(r)
    \/ \E r \in Requests : PostFetched(r)
    \/ \E r \in Requests : PostCompleted(r)
    \/ Tick

\* The browser client and the chat endpoint it talks to: the client is the
\* only caller, and it never calls DELETE, so sessions leave the store by the
\* sweep alone.
SpecClient == ClientInit /\ [][ClientNext]_vars

ParametersInit ==
    /\ ServerInit
    /\ call \in ParameterInputs

ParametersNext ==
    \/ ParametersRejected
    \/ ParametersSent

\* The validation and the completion parameters on every body of the harness.
SpecParameters == ParametersInit /\ [][ParametersNext]_vars

\* -------------------------------------------------------------------------
\* Properties of the token budgeter, the context builder and the reaper
\* (checked under SpecPure)
\* -------------------------------------------------------------------------
TrimReturned == call.fn = "trim" /\ call.pc \in {"returned", "reapplied"}
StartsWithSystem(messages) == messages # <<>> /\ messages[1].role = "system"

\* The estimated total of the first message plus the messages at `kept`.
RECURSIVE SumAt(_, _)
SumAt(messages, kept) ==
    IF kept = {} THEN 0
    ELSE LET i == CHOOSE x \in kept : TRUE
         IN  estimateTokenCount(messages[i].content) + SumAt(messages, kept \ {i})
Suffix(messages, k) == SubSeq(messages, k + 1, Len(messages))

\* C1: for a list that starts with the system message, trimContextToTokenLimit
\* returns a list whose first element is that system message, and whose
\* estimated total is within the budget whenever removing some (possibly all)
\* non-system messages brings the total within the budget.
C1_TrimFitsWhenAchievable ==
    (TrimReturned /\ StartsWithSystem(call.messages)) =>
        /\ call.result # <<>>
        /\ call.result[1] = call.messages[1]
        /\ (\E kept \in SUBSET (2..Len(call.messages)) :
                SumAt(call.messages, {1} \cup kept) <= call.maxTokens)
           => calculateContextTokens(call.result) <= call.maxTokens

\* C2: trimContextToTokenLimit is idempotent: applied to its own output with
\* the same budget it returns that output, element for element.
C2_TrimIdempotent ==
    (call.fn = "trim" /\ call.pc = "reapplied") => call.result2 = call.result

\* A trim that dropped messages, is still over the budget, and was reapplied.
C2_Witness ==
    /\ call.fn = "trim" /\ call.pc = "reapplied"
    /\ Len(call.result) < Len(call.messages)
    /\ calculateContextTokens(call.result) > call.maxTokens

\* C3: when the input total exceeds the budget, the result is the system
\* message followed by the conversation with its k oldest messages dropped,
\* k being the least number of drops that brings the total within the budget,
\* or all of them when none does: a system message alone over the budget is
\* returned as a one-element list.
C3_TrimDropsUntilFitsOrOnlySystem ==
    (/\ TrimReturned /\ StartsWithSystem(call.messages)
     /\ calculateContextTokens(call.messages) > call.maxTokens) =>
        LET conv == Tail(call.messages)
            sys == call.messages[1]
            Fits(k) == estimateTokenCount(sys.content)
                       + calculateContextTokens(Suffix(conv, k)) <= call.maxTokens
        IN  /\ \E k \in 0..Len(conv) :
                /\ call.result = <<sys>> \o Suffix(conv, k)
                /\ Fits(k) \/ k = Len(conv)
                /\ \A j \in 0..(k - 1) : ~Fits(j)
            /\ estimateTokenCount(sys.content) > call.maxTokens
               => call.result = <<sys>>

\* C21: trimContextToTokenLimit drops oldest first and only as much as needed:
\* the result is the first message followed by a contiguous suffix of the
\* remaining messages in their order; an input whose total is within the
\* budget is returned unchanged; and when messages were dropped, the total
\* with the most recently dropped message put back exceeds the budget.
C21_TrimOldestFirstNoMoreThanNeeded ==
    TrimReturned =>
        LET first == call.messages[1]
            rest == Tail(call.messages)
        IN  /\ calculateContextTokens(call.messages) <= call.maxTokens
               => call.result = call.messages
            /\ call.messages # <<>> =>
                 \E k \in 0..Len(rest) :
                    /\ call.result = <<first>> \o Suffix(rest, k)
                    /\ k > 0 => estimateTokenCount(first.content)
                                  + calculateContextTokens(Suffix(rest, k - 1))
                                  > call.maxTokens

\* Messages were dropped, more than one conversation message is left, and the
\* result is within the budget.
C21_Witness ==
    /\ TrimReturned
    /\ Len(call.result) < Len(call.messages)
    /\ Len(call.result) > 2
    /\ calculateContextTokens(call.result) <= call.maxTokens

BuildReturned == call.fn = "build" /\ call.pc = "returned"
Projection(msg) == [role |-> msg.role, content |-> msg.content]

\* C4: buildConversationContext(session, true) of a session with n stored
\* messages is one system message followed by the last min(n, 20) stored
\* messages in their order, and no other system message;
\* buildConversationContext(session, false) is those min(n, 20) messages.
C4_BuildContextLastTwenty ==
    BuildReturned =>
        LET stored == call.session.messages
            n == Len(stored)
            k == Min(n, 20)
            off == IF call.includeSystemPrompt THEN 1 ELSE 0
        IN  /\ Len(call.result) = off + k
            /\ call.includeSystemPrompt => call.result[1].role = "system"
            /\ \A i \in 1..k :
                /\ call.result[off + i] = Projection(stored[n - k + i])
                /\ call.result[off + i].role # "system"

\* 25 stored messages, with the system prompt: stored messages 6..25 follow it.
C4_Witness ==
    /\ BuildReturned /\ call.includeSystemPrompt
    /\ Len(call.session.messages) = 25
    /\ Len(call.result) = 21
    /\ call.result[2] = Projection(call.session.messages[6])
    /\ call.result[21] = Projection(call.session.messages[25])

CleanupReturned == call.fn = "cleanup" /\ call.pc = "returned"

\* C5: cleanupOldSessions(sessions, maxAge) run at time `clock` removes exactly
\* the sessions whose updatedAt is strictly older than clock - maxAge, leaves
\* the others (one at the cutoff included) as they were, and returns the
\* number removed.
C5_ReapExactlyOlderThanCutoff ==
    CleanupReturned =>
        LET before == call.sessions
            after == call.result.sessions
            cutoff == call.clock - call.maxAge
            old == {id \in DOMAIN before : before[id].updatedAt < cutoff}
        IN  /\ DOMAIN after = DOMAIN before \ old
            /\ \A id \in DOMAIN after : after[id] = before[id]
            /\ call.result.cleanedCount = Cardinality(old)

\* A sweep that removed one session and kept one whose updatedAt is the cutoff.
C5_Witness ==
    /\ CleanupReturned
    /\ call.result.cleanedCount = 1
    /\ \E id \in DOMAIN call.result.sessions :
          call.sessions[id].updatedAt = call.clock - call.maxAge

\* -------------------------------------------------------------------------
\* Properties of the chat endpoint (checked under Spec)
\* -------------------------------------------------------------------------
Last(seq) == seq[Len(seq)]
Occurrences(seq, x) == Cardinality({i \in DOMAIN seq : seq[i] = x})
IsPrefix(a, b) == Len(a) <= Len(b) /\ SubSeq(b, 1, Len(a)) = a
\* The first position of `event` in a handler's trace, 0 when it is absent.
Position(trace, event) ==
    IF \E i \in DOMAIN trace : trace[i] = event
    THEN CHOOSE i \in DOMAIN trace :
            trace[i] = event /\ \A j \in 1..(i - 1) : trace[j] # event
    ELSE 0

\* The step in which request r's completion call fails and the handler answers.
CompletionFails(r) ==
    /\ req[r].pc = "completing"
    /\ req'[r].pc = "done"
    /\ Last(req'[r].trace) = "completion failed"

C7_UpdatedAtBumpedOnEveryAppend ==
    [][\A id \in DOMAIN heap :
        /\ heap'[id].updatedAt >= heap[id].updatedAt
        /\ Len(heap'[id].messages) > Len(heap[id].messages)
           => heap'[id].updatedAt >= Last(heap'[id].messages).timestamp]_vars

\* C8: a session's transcript never changes and its log only grows at the
\* end: the log before a step is a prefix of the log after it, whatever the
\* step (POST, GET, DELETE, a sweep, context building and trimming).
C8_LogAppendOnly ==
    [][\A id \in DOMAIN heap :
        /\ id \in DOMAIN heap'
        /\ heap'[id].transcript = heap[id].transcript
        /\ IsPrefix(heap[id].messages, heap'[id].messages)]_vars

\* A context sent to the completion service that dropped a message which
\* is still in the session's log.
C8_Witness ==
    \E r \in Requests :
        /\ req[r].pc = "completing"
        /\ Len(heap[req[r].session].messages) >= 3
        /\ Len(req[r].trimmedMessages) < 1 + Len(heap[req[r].session].messages)

\* C9: when two chat requests race on the same session, after both finish the
\* log holds both user messages and every assistant reply of a successful
\* completion, each exactly once, and updatedAt is at least the timestamp of
\* the latest append.
C9_RaceLosesNoUpdate ==
    \A r1, r2 \in Requests :
        (/\ r1 # r2
         /\ req[r1].pc = "done" /\ req[r2].pc = "done"
         /\ req[r1].raced /\ req[r2].raced
         /\ req[r1].session # "" /\ req[r1].session = req[r2].session) =>
            LET session == heap[req[r1].session]
                log == session.messages
            IN  /\ \A r \in {r1, r2} :
                    /\ Occurrences(log, req[r].userMessage) = 1
                    /\ req[r].response.status = 200
                       => Occurrences(log, req[r].response.message) = 1
                /\ \A i \in DOMAIN log : session.updatedAt >= log[i].timestamp

\* C10: the user message is pushed only after the validation of the request
\* and of the session have passed, the assistant message only after the
\* completion call has succeeded, and a request rejected by validation
\* pushes nothing.
C10_AppendOnlyAfterValidation ==
    \A r \in Requests :
        LET trace == req[r].trace
            Before(a, b) == Position(trace, a) # 0 /\ Position(trace, a) < Position(trace, b)
        IN  /\ Position(trace, "push user message") # 0
               => /\ Before("input validation passed", "push user message")
                  /\ Before("session validation passed", "push user message")
            /\ Position(trace, "push assistant message") # 0
               => Before("completion succeeded", "push assistant message")
            /\ (Position(trace, "input validation failed") # 0
                \/ Position(trace, "session validation failed") # 0)
               => Position(trace, "push user message") = 0

\* The step in which request r's handler looks its session up (line 109),
\* the body having passed validation.
LooksUp(r) ==
    /\ req[r].pc = "parsing"
    /\ req'[r].pc # "parsing"
    /\ validationErrors(req[r].body) = {}

\* The step in which request r's handler stores the session it has created.
Creates(r) ==
    /\ req[r].pc = "fetching"
    /\ req'[r].pc # "fetching"
    /\ Position(req'[r].trace, "session created") # 0

\* C11: when the supplied sessionId resolves to a stored session, that
\* session is used, no transcript is fetched and the store gets no new entry;
\* otherwise the handler fetches, and on success inserts exactly one session
\* under an id that no session had before, holding the fetched transcript and
\* a log that starts empty (this request's user message is its first entry);
\* every key of the store is the id of the session it maps to.
C11_GetOrCreate ==
    [][/\ \A r \in Requests :
            /\ LooksUp(r) =>
                 /\ chatSessions' = chatSessions
                 /\ DOMAIN heap' = DOMAIN heap
                 /\ IF req[r].body.sessionId.str \in chatSessions
                    THEN /\ req'[r].pc # "fetching"
                         /\ req'[r].session = req[r].body.sessionId.str
                         /\ Position(req'[r].trace, "session created") = 0
                    ELSE req'[r].pc = "fetching"
            /\ Creates(r) =>
                 \E id \in chatSessions' \ chatSessions :
                    /\ chatSessions' = chatSessions \cup {id}
                    /\ DOMAIN heap' = DOMAIN heap \cup {id}
                    /\ id \notin DOMAIN heap
                    /\ req'[r].session = id
                    /\ heap'[id].transcript = TranscriptOf(req[r].body.videoId)
                    /\ heap'[id].messages = <<req'[r].userMessage>>
       /\ (\A r \in Requests : ~Creates(r)) => chatSessions' \subseteq chatSessions
       /\ \A key \in chatSessions' : heap'[key].id = key
       /\ \A key \in DOMAIN heap' : heap'[key].id = key]_vars

\* One request created a session for an unknown sessionId, and another
\* request was served from that stored session without a fetch.
C11_Witness ==
    \E r1, r2 \in Requests :
        /\ r1 # r2
        /\ Position(req[r1].trace, "session created") # 0
        /\ req[r2].session = req[r1].session
        /\ req[r2].session \in chatSessions
        /\ Position(req[r2].trace, "push user message") # 0
        /\ Position(req[r2].trace, "session created") = 0

\* The defects of a request body that the validation is about.
MessageDefect(body) ==
    \/ body.message.length = 0
    \/ TrimmedLength(body.message) = 0
    \/ body.message.length > 4000
VideoIdDefect(body) == ~VideoIdFormatOk(body.videoId)
OutOfRange(value, low, high) ==
    value.type = "number" /\ (value.num < low \/ value.num > high)
SamplingDefect(body) ==
    OutOfRange(body.temperature, 0, 2) \/ OutOfRange(body.maxTokens, 1, 8000)
\* A value that was supplied and is not a string.
NonString(value) == value.type \notin {"string", "undefined"}

\* The step in which request r's handler is done with the parsed body.
Validates(r) == req[r].pc = "parsing" /\ req'[r].pc # "parsing"

\* The handler returns the structured validation error, having drawn no id,
\* created no session, appended no message and started no external call.
RejectedUntouched(r) ==
    /\ req'[r].pc = "done"
    /\ req'[r].response.status = 400
    /\ req'[r].response.code = "VALIDATION_ERROR"
    /\ req'[r].trace = <<"input validation failed">>
    /\ req'[r].session = "" /\ req'[r].userMessage = NoMessage
    /\ heap' = heap /\ chatSessions' = chatSessions /\ uuidCount' = uuidCount

\* C12, as stated: a request whose message is missing, empty or over 4000
\* characters, whose video id is malformed, whose sessionId or model is not a
\* string, or whose temperature or maxTokens is out of range is rejected with
\* the validation error before any fetch or completion call, no session
\* created and no message appended.
C12_InvalidRequestRejected ==
    [][\A r \in Requests :
        (/\ Validates(r)
         /\ \/ MessageDefect(req[r].body) \/ VideoIdDefect(req[r].body)
            \/ NonString(req[r].body.sessionId) \/ NonString(req[r].body.model)
            \/ SamplingDefect(req[r].body))
        => RejectedUntouched(r)]_vars

\* C12, amended: as above, a sessionId or model that is not a string being a
\* defect only when it is truthy; a falsy one (0, false, null) counts as not
\* supplied.
C12_InvalidRequestRejectedUnlessFalsy ==
    [][\A r \in Requests :
        (/\ Validates(r)
         /\ \/ MessageDefect(req[r].body) \/ VideoIdDefect(req[r].body)
            \/ NonString(req[r].body.sessionId) /\ Truthy(req[r].body.sessionId)
            \/ NonString(req[r].body.model) /\ Truthy(req[r].body.model)
            \/ SamplingDefect(req[r].body))
        => RejectedUntouched(r)]_vars

\* A request rejected by validation while the store holds a session with a
\* turn in its log.
C12_Witness ==
    \E r \in Requests :
        /\ req[r].pc = "done"
        /\ req[r].response.code = "VALIDATION_ERROR"
        /\ \E id \in chatSessions : heap[id].messages # <<>>

\* The step in which request r's transcript fetch fails and the handler answers.
FetchFails(r) ==
    /\ req[r].pc = "fetching"
    /\ req'[r].pc = "done"
    /\ Last(req'[r].trace) = "transcript fetch failed"

Without(seq, x) == SelectSeq(seq, LAMBDA y : y # x)

\* What the source does for a language, as the claim classes it: a failure
\* is video-level when the video is not found, private or restricted, blocked
\* in the region, or has no captions at all.
Succeeds(source, lang) == source[lang] = HasCaptions
VideoLevelFailure(source, lang) ==
    source[lang] \in {Throws({"video unavailable"}), Throws({"private"}),
                      Throws({"blocked"}), Throws({"no captions"})}
Decisive(source, lang) == Succeeds(source, lang) \/ VideoLevelFailure(source, lang)

\* C14: the loop attempts the preferred language, then the fallback list
\* without it, one language per iteration; the attempts made are the shortest
\* prefix of that order ending with a success or a video-level failure: a
\* success returns that language, a video-level failure is thrown at once,
\* and any other failure moves on to the next language.
C14_FallbackShortestDecisivePrefix ==
    (call.fn = "fetch" /\ call.useFallback) =>
        LET loop == call.loop
            source == loop.source
            order == <<loop.preferredLang>> \o Without(loop.fallbackLangs, loop.preferredLang)
            n == Len(loop.attempts)
        IN  /\ IsPrefix(loop.attempts, order)
            /\ \A i \in 1..(n - 1) : ~Decisive(source, loop.attempts[i])
            /\ loop.pc = "trying" => \A i \in 1..n : ~Decisive(source, loop.attempts[i])
            /\ loop.pc = "returned" =>
                 /\ n > 0 /\ Succeeds(source, loop.attempts[n])
                 /\ loop.language = loop.attempts[n]
            /\ loop.pc = "thrown" =>
                 \/ /\ n > 0 /\ VideoLevelFailure(source, loop.attempts[n])
                    /\ loop.error = fetchTranscript(source, loop.attempts[n]).error
                 \/ /\ loop.attempts = order
                    /\ \A i \in 1..n : ~Decisive(source, loop.attempts[i])

\* The outward statuses of the failure kinds: not found, forbidden, rate
\* limited, and the statuses that stand for a failure of the upstream network.
StatusesOfKind(rawError) ==
    IF rawError = {"video unavailable"} THEN {404}
    ELSE IF rawError = {"private"} \/ rawError = {"blocked"} THEN {403}
    ELSE IF rawError = {"rate limit"} THEN {429}
    ELSE IF rawError = {"network"} THEN {502, 503, 504}
    ELSE 100..599

\* C15: when the source fails with one kind of error for every language the
\* fetch tries, the endpoint, chat or transcript, answers with the status of
\* that kind: 404 for a video not found, 403 for a private, restricted or
\* region-blocked one, 429 when rate limited, and an upstream-failure status
\* for a network failure.
C15_FailureKindKeepsItsStatus ==
    (call.fn = "fetch" /\ call.pc = "answered") =>
        \A rawError \in RawErrors :
            (\A i \in DOMAIN call.loop.attempts :
                call.loop.source[call.loop.attempts[i]] = Throws(rawError))
            => call.status \in StatusesOfKind(rawError)

\* -------------------------------------------------------------------------
\* Properties of the relevance scorer (checked under SpecSegments)
\* -------------------------------------------------------------------------
SegmentsReturned == call.fn = "segments" /\ call.pc = "returned"

\* C16: for every query, transcript and maxSegments >= 0 the call returns at
\* most maxSegments segments, each a segment of the transcript, in strictly
\* increasing transcript index, in the positional and in the scored branch.
C16_AtMostMaxInTranscriptOrder ==
    SegmentsReturned =>
        LET segments == call.result.segments
        IN  /\ ~call.result.threw
            /\ Len(segments) <= call.maxSegments
            /\ \E at \in [DOMAIN segments -> DOMAIN call.transcript] :
                /\ \A k \in DOMAIN segments : segments[k] = call.transcript[at[k]]
                /\ \A k \in 1..(Len(segments) - 1) : at[k] < at[k + 1]

\* Every whitespace-separated token of the text has at most two characters.
OnlyShortTokens(text) ==
    \A i \in 1..(Len(text) - 2) : \E k \in i..(i + 2) : text[k] = " "

\* C17: for a query whose tokens all have length <= 2, the empty query
\* included, the call does not throw and returns exactly the first
\* min(maxSegments, length of the transcript) segments, in order.
C17_ShortTokensPositional ==
    (SegmentsReturned /\ OnlyShortTokens(call.query)) =>
        /\ ~call.result.threw
        /\ Len(call.result.segments) = Min(call.maxSegments, Len(call.transcript))
        /\ \A k \in DOMAIN call.result.segments :
              call.result.segments[k] = call.transcript[k]

\* A query of two short words against a transcript longer than maxSegments,
\* whose first segments contain none of the words.
C17_Witness ==
    /\ SegmentsReturned
    /\ call.query = <<"a", "b", " ", "a", "b">>
    /\ call.maxSegments = 2 /\ Len(call.transcript) = 3
    /\ call.transcript[1].text = <<"b", "b">>
    /\ Len(call.result.segments) = 2

\* The call went through the scored branch and returned.
ScoredReturned ==
    /\ SegmentsReturned
    /\ ~OnlyShortTokens(call.query)
    /\ ~call.result.threw

\* The words of the query that the scorer keeps.
KeptWords(query) == SelectSeq(split(toLowerCase(query)), LAMBDA word : Len(word) > 2)

\* The score the call gave to the segment at `index` of its transcript.
ScoreAt(index) ==
    SegmentScore(toLowerCase(call.query), KeptWords(call.query), call.transcript[index])

\* The transcript indexes of the returned segments (a segment starts at index - 1).
ReturnedIndexes ==
    {call.result.segments[k].start + 1 : k \in DOMAIN call.result.segments}

\* C22: in the scored branch every returned segment has a positive score, no
\* omitted segment has a higher score than a returned one, an omitted segment
\* that ties with a returned one comes later in the transcript, and the
\* number returned is maxSegments or, if fewer score positively, all of those.
C22_TopScoresTiesByOrder ==
    ScoredReturned =>
        LET returned == ReturnedIndexes
            omitted == DOMAIN call.transcript \ returned
            positive == {i \in DOMAIN call.transcript : ScoreAt(i) > 0}
        IN  /\ \A k \in DOMAIN call.result.segments :
                  call.result.segments[k] = call.transcript[call.result.segments[k].start + 1]
            /\ returned \subseteq positive
            /\ \A i \in returned : \A j \in omitted :
                  /\ ScoreAt(j) <= ScoreAt(i)
                  /\ ScoreAt(j) = ScoreAt(i) => j > i
            /\ Cardinality(returned) = Min(call.maxSegments, Cardinality(positive))
            /\ Cardinality(positive) < call.maxSegments => returned = positive

\* Three segments score 1, 2 and 1 and two are asked for: the first and the
\* second are returned, the third ties with the first and is omitted.
C22_Witness ==
    /\ ScoredReturned
    /\ call.maxSegments = 2 /\ Len(call.transcript) = 3
    /\ ScoreAt(1) = 1 /\ ScoreAt(2) = 2 /\ ScoreAt(3) = 1
    /\ ReturnedIndexes = {1, 2}

\* The occurrences of `word` in `text` as a literal substring, counted from
\* left to right without overlap.
RECURSIVE LiteralCount(_, _, _)
LiteralCount(word, text, i) ==
    IF i + Len(word) - 1 > Len(text) THEN 0
    ELSE IF \A k \in DOMAIN word : word[k] = text[i + k - 1]
    THEN 1 + LiteralCount(word, text, i + Len(word))
    ELSE LiteralCount(word, text, i + 1)

RECURSIVE LiteralSum(_, _, _)
LiteralSum(words, text, k) ==
    IF k > Len(words) THEN 0
    ELSE LiteralCount(words[k], text, 1) + LiteralSum(words, text, k + 1)

\* C23: for a query with a token longer than two characters the call does not
\* throw, and the score of every segment is the number of literal occurrences
\* of the kept tokens in the lowercased segment text, plus 5 if the lowercased
\* query is a substring of it; tokens with characters that are special in
\* regular expressions are counted literally too.
C23_ScoreCountsLiteralOccurrences ==
    (SegmentsReturned /\ ~OnlyShortTokens(call.query)) =>
        /\ ~call.result.threw
        /\ \A i \in DOMAIN call.transcript :
              LET segmentText == toLowerCase(call.transcript[i].text)
              IN  ScoreAt(i) = LiteralSum(KeptWords(call.query), segmentText, 1)
                               + (IF includes(segmentText, toLowerCase(call.query))
                                  THEN 5 ELSE 0)

\* -------------------------------------------------------------------------
\* Properties of the transcript formatters (checked under SpecFormat)
\* -------------------------------------------------------------------------
FormatReturned == call.fn = "format" /\ call.pc = "returned"

\* The lines of a text: the pieces between its newlines.
Lines(text) ==
    LET newlines == {i \in DOMAIN text : text[i] = "\n"}
        count == Cardinality(newlines)
        At(k) == IF k = 0 THEN 0
                 ELSE IF k > count THEN Len(text) + 1
                 ELSE CHOOSE i \in newlines : Cardinality({j \in newlines : j < i}) = k - 1
    IN  [k \in 1..(count + 1) |-> SubSeq(text, At(k - 1) + 1, At(k) - 1)]

RECURSIVE Concat(_)
Concat(texts) == IF Len(texts) = 0 THEN <<>> ELSE Head(texts) \o Concat(Tail(texts))
CommaFor(time) == [i \in DOMAIN time |-> IF time[i] = "." THEN "," ELSE time[i]]

\* C18: for n segments the srt output is n blocks in segment order, the k-th
\* made of the line k, the line of the k-th segment's times, the line of its
\* text, and an empty line; the vtt output is the WEBVTT header and an empty
\* line, then n blocks of times, text and an empty line; for n = 0 the srt
\* output is empty and the vtt output the header alone; text_only is the
\* texts separated by single spaces, empty for n = 0.
C18_OneBlockPerSegment ==
    FormatReturned =>
        LET segments == call.formatted
            n == Len(segments)
            lines == Lines(call.result)
            TimeLine(k) == segments[k].startTime \o Arrow \o segments[k].endTime
        IN  /\ n = Len(call.rawTranscript)
            /\ call.format = "srt" =>
                 /\ n = 0 => call.result = <<>>
                 /\ n > 0 => Len(lines) = 4 * n
                 /\ \A k \in 1..n :
                      /\ lines[4 * k - 3] = toString(k)
                      /\ lines[4 * k - 2] = CommaFor(TimeLine(k))
                      /\ lines[4 * k - 1] = segments[k].text
                      /\ lines[4 * k] = <<>>
            /\ call.format = "vtt" =>
                 /\ Len(lines) = IF n = 0 THEN 3 ELSE 2 + 3 * n
                 /\ lines[1] = <<"W", "E", "B", "V", "T", "T">> /\ lines[2] = <<>>
                 /\ n = 0 => call.result = VttHeader
                 /\ \A k \in 1..n :
                      /\ lines[3 * k] = TimeLine(k)
                      /\ lines[3 * k + 1] = segments[k].text
                      /\ lines[3 * k + 2] = <<>>
            /\ call.format = "text_only" =>
                 /\ n = 0 => call.result = <<>>
                 /\ n > 0 =>
                      call.result = segments[1].text
                          \o Concat([k \in 1..(n - 1) |-> <<" ">> \o segments[k + 1].text])

\* Three segments rendered as srt, the second one a text that had a newline
\* and spaces around it.
C18_Witness ==
    /\ FormatReturned /\ call.format = "srt"
    /\ call.rawTranscript = <<RawHello, RawHour, RawLate>>
    /\ Len(Lines(call.result)) = 12
    /\ Lines(call.result)[7] = <<"h", "i", " ", "y", "o", "u">>

RECURSIVE Text(_)
Text(chars) == IF Len(chars) = 0 THEN "" ELSE Head(chars) \o Text(Tail(chars))

\* HH:MM:SS,mmm --> HH:MM:SS,mmm
IsSrtTime(time) ==
    /\ Len(time) = 12
    /\ \A i \in {1, 2, 4, 5, 7, 8, 10, 11, 12} : \E d \in 1..10 : time[i] = DigitChars[d]
    /\ time[3] = ":" /\ time[6] = ":" /\ time[9] = ","
IsSrtTimeLine(line) ==
    /\ Len(line) = 29
    /\ IsSrtTime(SubSeq(line, 1, 12))
    /\ SubSeq(line, 13, 17) = Arrow
    /\ IsSrtTime(SubSeq(line, 18, 29))

\* C19: in srt output the time line of every block has the form
\* HH:MM:SS,mmm --> HH:MM:SS,mmm, the hours written also under one hour; the
\* captions hello (0 s, 2 s long) and world (2 s, 3 s long) give the
\* text_only output "hello world" and an srt output whose first block is the
\* lines 1, 00:00:00,000 --> 00:00:02,000 and hello.
C19_SrtTimesCarryHours ==
    FormatReturned =>
        /\ call.format = "srt" =>
             \A k \in 1..Len(call.formatted) : IsSrtTimeLine(Lines(call.result)[4 * k - 2])
        /\ call.rawTranscript = <<RawHello, RawWorld>> =>
             /\ call.format = "text_only" => Text(call.result) = "hello world"
             /\ call.format = "srt" =>
                  /\ Text(Lines(call.result)[1]) = "1"
                  /\ Text(Lines(call.result)[2]) = "00:00:00,000 --> 00:00:02,000"
                  /\ Text(Lines(call.result)[3]) = "hello"

\* -------------------------------------------------------------------------
\* Properties of the transcript rendering (checked under SpecRender)
\* -------------------------------------------------------------------------
RenderReturned == call.fn = "render" /\ call.pc = "returned"

\* C20: a rendering of at most 50,000 characters is returned as it is; a
\* longer one is returned as its first 49,900 characters followed by the
\* truncation marker; either way the result has at most 50,000 characters.
C20_RenderingWithinCeiling ==
    RenderReturned =>
        LET rendering == Rendering(call.videoId, call.transcript)
        IN  /\ rendering.length <= 50000 => call.result = rendering
            /\ rendering.length > 50000 =>
                 /\ call.result.text
                      = rendering.text \o "[0..49900)"
                        \o "\n\n[... transcript truncated for length ...]"
                 /\ call.result.length = 49900 + Len("\n\n[... transcript truncated for length ...]")
            /\ call.result.length <= 50000

\* Two captions whose rendering is one character over the ceiling.
C20_Witness ==
    /\ RenderReturned
    /\ Len(call.transcript) = 2
    /\ JoinedLength(call.transcript) = 50001
    /\ call.result.length = 49943

\* -------------------------------------------------------------------------
\* Properties of concurrent chat turns (checked under Spec)
\* -------------------------------------------------------------------------
\* Request r has answered with the reply of a successful completion.
Answered(r) == req[r].pc = "done" /\ req[r].response.status = 200

\* C24: in every session log each chat turn is contiguous: the assistant
\* message of a request is immediately preceded by the user message of that
\* same request, whatever other requests ran on the session meanwhile.
C24_TurnsContiguous ==
    \A r \in Requests :
        Answered(r) =>
            LET log == heap[req[r].session].messages
            IN  \A i \in DOMAIN log :
                    log[i] = req[r].response.message
                    => i > 1 /\ log[i - 1] = req[r].userMessage

\* Request r reaches the completion call in this step.
ReachesCompletion(r) == req[r].pc # "completing" /\ req'[r].pc = "completing"

\* C25: the message list a request sends to the completion service has the
\* system message of its session first and the user message of this very
\* request last, whatever the length of the log, the size of the messages and
\* the other requests running on the session.
C25_SystemFirstOwnMessageLast ==
    [][\A r \in Requests :
         ReachesCompletion(r) =>
            LET sent == req'[r].trimmedMessages
                session == heap'[req'[r].session]
            IN  /\ Len(sent) >= 2
                /\ sent[1] = [role |-> "system", content |-> SystemContent(session)]
                /\ req'[r].userMessage.content = req[r].body.message
                /\ Last(session.messages) = req'[r].userMessage
                /\ Last(sent) = Projection(req'[r].userMessage)]_vars

\* A request suspended on the completion call of a turn that another request
\* races with: the log holds more than MAX_CONTEXT_MESSAGES messages, the
\* budget has left only the system message and this request's own message.
C25_Witness ==
    \E r \in Requests :
        /\ req[r].pc = "completing" /\ req[r].raced
        /\ Len(heap[req[r].session].messages) = MAX_CONTEXT_MESSAGES + 2
        /\ Last(heap[req[r].session].messages) = req[r].userMessage
        /\ Len(req[r].trimmedMessages) = 2
        /\ req[r].trimmedMessages[2] = Projection(req[r].userMessage)

\* C26: the session from which a request builds its context belongs to the
\* video the request names, whether the session was stored or is new, so the
\* transcript in the system message is that video's transcript.
C26_SessionOfTheNamedVideo ==
    [][\A r \in Requests :
         ReachesCompletion(r) =>
            LET session == heap'[req'[r].session]
            IN  /\ session.videoId = req[r].body.videoId
                /\ req'[r].trimmedMessages[1].content
                     = SystemContent([session EXCEPT
                          !.videoId = req[r].body.videoId,
                          !.videoTitle = extractVideoTitle(req[r].body.videoId),
                          !.videoUrl = VideoUrl(req[r].body.videoId),
                          !.transcript = TranscriptOf(req[r].body.videoId)])]_vars

\* The sessions on which a chat request is suspended on the completion call.
InFlight == {req[r].session : r \in {o \in Requests : req[o].pc = "completing"}}

\* The step begins a POST, the only place where the sweep runs.
BeginsPost == \E r \in Requests : req[r].pc \in {"idle", "done"} /\ req'[r].pc = "parsing"

\* C27: a sweep triggered by one request never removes a session on which
\* another request is in flight; a request that returns success with
\* sessionId s leaves the log of s ending with the assistant message it
\* returns, and does not itself take s out of the store.
C27_SweepSparesSessionsInFlight ==
    [][/\ BeginsPost => (chatSessions \ chatSessions') \cap InFlight = {}
       /\ \A r \in Requests :
            (req[r].pc = "completing" /\ req'[r].pc = "done"
             /\ req'[r].response.status = 200) =>
                LET s == req'[r].response.sessionId
                IN  /\ s = req[r].session
                    /\ Last(heap'[s].messages) = req'[r].response.message
                    /\ s \in chatSessions <=> s \in chatSessions']_vars

\* -------------------------------------------------------------------------
\* Properties of the completion parameters (checked under SpecParameters)
\* -------------------------------------------------------------------------
\* C28: for a request that passes validation, the model, temperature and
\* maxTokens sent to the completion service are the caller's values where
\* the caller supplied them, and the defaults gpt-4o-mini, 0.7 and 4000 only
\* where the caller omitted them; a supplied temperature of 0 is sent as 0.
C28_SuppliedParametersAreSent ==
    (call.fn = "parameters" /\ call.pc = "sent") =>
        /\ call.sent.model = IF call.body.model = Undefined
                             THEN "gpt-4o-mini" ELSE call.body.model.str
        /\ call.sent.temperature = IF call.body.temperature = Undefined
                                   THEN 7 ELSE 10 * call.body.temperature.num
        /\ call.sent.max_tokens = IF call.body.maxTokens = Undefined
                                  THEN 4000 ELSE call.body.maxTokens.num

\* -------------------------------------------------------------------------
\* Properties of the browser client (checked under SpecClient)
\* -------------------------------------------------------------------------
\* The client handles the response of chat request r in this step.
Receives(r) == call.chats[r].active /\ ~call'.chats[r].active

\* C29: after every successful chat response the client's sessionId is the
\* sessionId of that response, also when the server answered from a new
\* session because the id sent was reaped, deleted or unknown. Responses that
\* arrive after the conversation was reset by a new load are left to C30.
C29_ClientFollowsServerSession ==
    [][\A r \in Requests :
         (Receives(r) /\ req[r].response.status = 200 /\ ~call.chats[r].reloaded)
         => call'.sessionId = req[r].response.sessionId]_vars

\* C30: loading a new video resets the conversation for good, whatever chat
\* request is still in flight for the previous video: once the new transcript
\* is shown, the client's sessionId is empty or the id of a session of the
\* loaded video, and no displayed reply belongs to another video.
C30_ReloadResetsConversation ==
    (call.fn = "client" /\ call.transcriptLoaded) =>
        /\ call.sessionId = "" \/ heap[call.sessionId].videoId = call.videoId
        /\ \A i \in DOMAIN call.messages :
              call.messages[i].kind = "reply" => call.messages[i].videoId = call.videoId

====
